---- MODULE Spec2Model ----
(***************************************************************************)
(* Permit lifecycle of the hcsd application (msv/hcsd/views.py and         *)
(* msv/hcsd/models.py): the database rows the views read and write, and    *)
(* one action per request handler.                                         *)
(***************************************************************************)
EXTENDS Integers, Sequences, FiniteSets, TLC

(***************************************************************************)
(* Bounds of the model.                                                    *)
(***************************************************************************)
\* number of permit rows ever inserted (primary keys 1..MaxPermits)
MaxPermits == 1
\* length of the permit change log beyond which no handler is started
MaxLog == 6
\* number of Company rows ever inserted (primary keys 1..MaxCompanies)
MaxCompanies == 1
\* the most rows of the Company table where the table alone is explored
MaxCompanyRows == 2
\* the clock runs over the days 0..MaxDay; each day lies in its own year
MaxDay == 1
\* the most activities a permit lists
MaxKeys == 3

(***************************************************************************)
(* Program constants.                                                      *)
(***************************************************************************)
ROLE_DATA_ENTRY == "Data Entry"
ROLE_INSPECTOR == "Inspector"
ROLE_ADMIN == "Administration"
ALLOWED_DOC_EXTENSIONS == {".pdf", ".png", ".jpg", ".jpeg"}
FINAL_STATUSES == {"issued", "disposal_approved", "disposal_rejected"}
STATUS_CHOICES ==
    {"order_received", "inspection_payment_pending", "review_pending",
     "needs_completion", "approved", "payment_pending", "payment_completed",
     "issued", "inspection_pending", "inspection_completed",
     "disposal_approved", "disposal_rejected"}
PERMIT_TYPES == {"pest_control", "pesticide_transport", "waste_disposal"}
\* PirmetChangeLog.old_status / new_status: CharField(max_length=25)
AuditStatusWidth == 25
\* width of the zero-padded sequence in a permit number ({self.pk:06d})
PermitNoWidth == 6

(***************************************************************************)
(* Null values of the nullable columns.                                    *)
(***************************************************************************)
NoUser == "-"
NoDate == -1
NoId == 0
NoStatus == "-"
NoText == "-"

(***************************************************************************)
(* Users.  A user is known by name; the attributes the views read are      *)
(* is_authenticated, is_superuser and the groups the user belongs to.      *)
(***************************************************************************)
Users == {"anon", "clerk", "insp", "adm"}

\* a check that lets every request through
is_authenticated_always(u) == TRUE

is_authenticated(u) == u # "anon"

\* no superuser acts in the permit lifecycle; the accounts named root are
\* the superusers
is_superuser(u) == u \in {"root", "root_clerk", "root_insp", "root_adm"}

groups(u) ==
    CASE u \in {"clerk", "root_clerk"} -> {ROLE_DATA_ENTRY}
      [] u \in {"insp", "root_insp"} -> {ROLE_INSPECTOR}
      [] u \in {"adm", "root_adm"} -> {ROLE_ADMIN}
      [] u = "clerk_insp" -> {ROLE_DATA_ENTRY, ROLE_INSPECTOR}
      [] u = "clerk_adm" -> {ROLE_DATA_ENTRY, ROLE_ADMIN}
      [] u = "insp_adm" -> {ROLE_INSPECTOR, ROLE_ADMIN}
      [] u = "all_roles" -> {ROLE_DATA_ENTRY, ROLE_INSPECTOR, ROLE_ADMIN}
      [] u = "other" -> {"Auditors"}
      [] OTHER -> {}

user_in_groups_by_group_only(u, group_names) ==
    IF ~is_authenticated(u) THEN FALSE
    ELSE groups(u) \cap group_names # {}

_user_in_groups(u, group_names) ==
    IF ~is_authenticated(u) THEN FALSE
    ELSE IF is_superuser(u) THEN TRUE
    ELSE groups(u) \cap group_names # {}

_can_data_entry(u) == _user_in_groups(u, {ROLE_DATA_ENTRY, ROLE_ADMIN})

_can_inspector(u) == _user_in_groups(u, {ROLE_INSPECTOR, ROLE_ADMIN})

_can_admin(u) == _user_in_groups(u, {ROLE_ADMIN})

\* every kind of account: the four users of the permit lifecycle, users in
\* no group ("guest", "root"), in a group of another name ("other"), in
\* several groups, and superusers in a group
Accounts ==
    Users \cup {"guest", "other", "clerk_insp", "clerk_adm", "insp_adm",
                "all_roles", "root", "root_clerk", "root_insp", "root_adm"}

Capabilities == {"_can_data_entry", "_can_inspector", "_can_admin"}

\* the capability function of a name
can(capability, u) ==
    CASE capability = "_can_data_entry" -> _can_data_entry(u)
      [] capability = "_can_inspector" -> _can_inspector(u)
      [] capability = "_can_admin" -> _can_admin(u)

(***************************************************************************)
(* Text and file inputs.                                                   *)
(***************************************************************************)
\* raw text of a form field: blanks only (an absent or empty field is
\* stripped to the same value), or some words
RawText == {" ", "text"}

\* (request.POST.get(name) or '').strip()
strip(t) == IF t = " " THEN "" ELSE t

\* an uploaded file is known by the extension of its name, as typed;
\* os.path.splitext(doc.name)[1].lower()
lower(ext) ==
    CASE ext = ".PNG" -> ".png"
      [] ext = ".PDF" -> ".pdf"
      [] OTHER -> ext

invalid_docs(documents) ==
    {i \in DOMAIN documents : lower(documents[i]) \notin ALLOWED_DOC_EXTENSIONS}

\* the multi-file payloads a request may carry
DocPayloads == {<<>>, <<".PNG">>, <<".pdf", ".exe">>}

\* raw value of a date field: absent, malformed, or the ISO form of a day
DateInputs == {"", "bad"} \cup {"day0"}

_parse_date(value) == IF value = "day0" THEN 0 ELSE NoDate

(***************************************************************************)
(* Dates.  A date is a day number; Year gives its calendar year.           *)
(***************************************************************************)
\* day 0 lies in 2026, and each later day of the clock in the next year
Year(d) == 2026 + d

(***************************************************************************)
(* Permit numbers are strings, modelled as sequences of characters.        *)
(***************************************************************************)
DigitChar(d) ==
    CASE d = 0 -> "0" [] d = 1 -> "1" [] d = 2 -> "2" [] d = 3 -> "3"
      [] d = 4 -> "4" [] d = 5 -> "5" [] d = 6 -> "6" [] d = 7 -> "7"
      [] d = 8 -> "8" [] d = 9 -> "9"

RECURSIVE Decimal(_)
\* str(n) for n >= 0
Decimal(n) ==
    IF n < 10 THEN <<DigitChar(n)>>
    ELSE Decimal(n \div 10) \o <<DigitChar(n % 10)>>

RECURSIVE ZeroPad(_, _)
\* format(n, '0<width>d'): zeros on the left up to width, never truncating
ZeroPad(s, width) == IF Len(s) >= width THEN s ELSE ZeroPad(<<"0">> \o s, width)

\* the permit number with the sequence padded to five digits
generate_permit_no_05d(dateOfCreation, today, pk) ==
    LET year == IF dateOfCreation # NoDate THEN Year(dateOfCreation)
                ELSE Year(today)
    IN <<"P", "R", "M", "-">> \o Decimal(year) \o <<"-">>
       \o ZeroPad(Decimal(pk), PermitNoWidth - 1)

\* f"PRM-{year}-{self.pk:06d}"
_generate_permit_no(dateOfCreation, today, pk) ==
    LET year == IF dateOfCreation # NoDate THEN Year(dateOfCreation)
                ELSE Year(today)
    IN <<"P", "R", "M", "-">> \o Decimal(year) \o <<"-">>
       \o ZeroPad(Decimal(pk), PermitNoWidth)

(***************************************************************************)
(* State: the rows of the database, the clock, and the answer to the last  *)
(* request.                                                                *)
(*   today      datetime.date.today()                                      *)
(*   engineers  Enginer rows, by primary key                               *)
(*   companies  Company rows, by primary key                               *)
(*   permits    PirmetClearance rows, by primary key                       *)
(*   nextPk     the next primary key of a PirmetClearance row              *)
(*   reviews    InspectorReview rows                                       *)
(*   documents  PirmetDocument rows, in insertion order                    *)
(*   changes    PirmetChangeLog rows, in insertion order                   *)
(*   response   how the view answered the last POST request                *)
(*   account    the user whose capabilities are asked for                  *)
(*   granted    the answers given so far, by capability                    *)
(*   activity_keys  the activity list of a row of the company list         *)
(*   inflight   the requests under way side by side, by name: the statement *)
(*              each has come to and what it holds in its own memory        *)
(***************************************************************************)
VARIABLES today, engineers, companies, permits, nextPk, reviews, documents,
          changes, response, account, granted, activity_keys, inflight

db == <<engineers, companies, permits, nextPk, reviews, documents, changes>>

vars == <<today, engineers, companies, permits, nextPk, reviews, documents,
          changes, response, account, granted, activity_keys, inflight>>

\* the arguments and answers of the functions that are called on their own,
\* and the requests that are under way side by side: what each has read into
\* its own memory and the statement it has come to
calls == <<account, granted, activity_keys, inflight>>

\* what a view answers
Responses ==
    {"login",         \* redirect('login')
     "forbidden",     \* HttpResponseForbidden
     "not_found",     \* get_object_or_404 found no row
     "form_errors",   \* a form page rendered again with its error list
     "list_errors",   \* the list page rendered with a non-empty error list
     "detail_errors", \* the detail page rendered with a non-empty error list
     "render",        \* the page rendered with no error
     "redirect",      \* redirect to a list or detail page
     "exception"}     \* an exception left the view

(***************************************************************************)
(* Model rows.                                                             *)
(***************************************************************************)
\* PirmetClearance(company=..., status=..., ...) before its first save
NewPermit(company, status, permit_type, dateOfExpiry, issue_date, payment_date) ==
    [company |-> company,
     status |-> status,
     permit_type |-> permit_type,
     permit_no |-> <<>>,
     dateOfCreation |-> NoDate,
     dateOfExpiry |-> dateOfExpiry,
     issue_date |-> issue_date,
     approvedBy |-> NoUser,
     approvedRemarks |-> "",
     unapprovedBy |-> NoUser,
     unapprovedReason |-> "",
     PaymentNumber |-> "",
     payment_date |-> payment_date,
     payment_receipt |-> "",
     allowed_activities |-> NoText,
     restricted_activities |-> NoText,
     request_documents_bundle |-> 0]

\* PirmetClearance.save: the row as stored.  dateOfCreation is auto_now_add.
save(row, is_new, pk, now) ==
    LET stored == IF is_new THEN [row EXCEPT !.dateOfCreation = now] ELSE row
    IN IF is_new /\ stored.permit_no = <<>>
       THEN [stored EXCEPT
                !.permit_no = _generate_permit_no(stored.dateOfCreation, now, pk)]
       ELSE stored

\* the PirmetChangeLog row _log_pirmet_change creates (changed_by, which no
\* handler reads back, is left out)
ChangeRow(pirmet, change_type, user, old_status, new_status, notes) ==
    [pirmet |-> pirmet,
     change_type |-> change_type,
     old_status |-> old_status,
     new_status |-> new_status,
     notes |-> notes]

\* a log whose old_status is read after the status was assigned
_log_pirmet_change_late(log, pirmet, change_type, user, old_status, new_status, notes) ==
    Append(log, ChangeRow(pirmet, change_type, user, new_status, new_status, notes))

_log_pirmet_change(log, pirmet, change_type, user, old_status, new_status, notes) ==
    Append(log, ChangeRow(pirmet, change_type, user, old_status, new_status, notes))

\* PirmetDocument.objects.create(pirmet=pirmet, file=doc) for doc in documents
DocumentRows(pirmet, docs) == [i \in DOMAIN docs |-> [pirmet |-> pirmet, file |-> docs[i]]]

\* Model.objects.filter(id=id).first(): the key of the row, or NoId
first_id(table, id) == IF id \in DOMAIN table THEN id ELSE NoId

\* the primary key given to the next row of a table whose rows are never deleted
next_id(table) == Cardinality(DOMAIN table) + 1

\* the keys a request may name: NoId stands for a missing or unparsable
\* value, and a key of no row for a row that is not there
PermitIds == 0..MaxPermits

CompanyIds == 0..MaxCompanies

EngineerIds == {0, 1}

(***************************************************************************)
(* The clock.                                                              *)
(***************************************************************************)
Tick ==
    /\ today < MaxDay
    /\ today' = today + 1
    /\ UNCHANGED <<db, response>>
    /\ UNCHANGED calls

(***************************************************************************)
(* enginer_list, POST: registration of an engineer.                        *)
(***************************************************************************)
enginer_by_email(email) ==
    IF \E e \in DOMAIN engineers : engineers[e].email = email
    THEN CHOOSE e \in DOMAIN engineers : engineers[e].email = email
    ELSE NoId

enginer_list(user, name, email, phone, public_health_cert, termite_cert) ==
    /\ IF ~is_authenticated(user) THEN
           /\ response' = "login"
           /\ UNCHANGED <<today, db>>
       ELSE IF ~_can_data_entry(user) THEN
           /\ response' = "forbidden"
           /\ UNCHANGED <<today, db>>
       ELSE IF \/ name = "" \/ email = "" \/ phone = ""
               \/ enginer_by_email(email) # NoId
               \/ public_health_cert = ""
               \/ invalid_docs(SelectSeq(<<public_health_cert, termite_cert>>,
                                         LAMBDA f : f # "")) # {}
       THEN
           /\ response' = "form_errors"
           /\ UNCHANGED <<today, db>>
       ELSE
           /\ engineers' = engineers @@
                  (next_id(engineers) :>
                      [name |-> name, email |-> email, phone |-> phone,
                       public_health_cert |-> public_health_cert,
                       termite_cert |-> termite_cert])
           /\ response' = "redirect"
           /\ UNCHANGED <<today, companies, permits, nextPk, reviews,
                          documents, changes>>
    /\ UNCHANGED calls

(***************************************************************************)
(* _upsert_company.  Of a Company row the model keeps the name, the        *)
(* licence number, the address, the licence expiry and the engineer; the   *)
(* contact columns (landline, owner_phone, email, business_activity) are   *)
(* copied the same way and read by no handler of the permit lifecycle.     *)
(***************************************************************************)
company_by_key(table, name, number) ==
    IF \E c \in DOMAIN table : table[c].name = name /\ table[c].number = number
    THEN CHOOSE c \in DOMAIN table : table[c].name = name /\ table[c].number = number
    ELSE NoId

\* the Company table after the call, and the key of the row it returns
_upsert_company(table, name, number, address, trade_license_exp, enginer) ==
    LET c == company_by_key(table, name, number)
    IN IF c # NoId
       THEN [table |->
                [table EXCEPT
                    ![c].address = IF address # "" THEN address ELSE @,
                    ![c].trade_license_exp =
                        IF trade_license_exp # NoDate THEN trade_license_exp ELSE @,
                    ![c].enginer = IF enginer # NoId THEN enginer ELSE @],
             id |-> c]
       ELSE [table |->
                table @@ (next_id(table) :>
                    [name |-> name, number |-> number, address |-> address,
                     trade_license_exp |-> trade_license_exp,
                     pest_control_type |-> "",
                     enginer |-> enginer]),
             id |-> next_id(table)]

(***************************************************************************)
(* add_company, POST.  The CompanyChangeLog row it writes is not modelled.  *)
(* The view sets no limit to the rows it creates; max_rows is the size the *)
(* Company table is explored up to.                                        *)
(***************************************************************************)
add_company_within(max_rows, user, name, number, address, trade_license_exp_value, enginer_id, pest_control_type) ==
    /\ IF ~is_authenticated(user) THEN
           /\ response' = "login"
           /\ UNCHANGED <<today, db>>
       ELSE IF ~_can_data_entry(user) THEN
           /\ response' = "forbidden"
           /\ UNCHANGED <<today, db>>
       ELSE IF \/ name = "" \/ number = "" \/ address = "" \/ enginer_id = NoId
               \/ pest_control_type = ""
               \/ /\ trade_license_exp_value # ""
                  /\ _parse_date(trade_license_exp_value) = NoDate
               \/ first_id(engineers, enginer_id) = NoId
               \/ engineers[enginer_id].public_health_cert = ""
               \/ /\ pest_control_type = "termite_control"
                  /\ engineers[enginer_id].termite_cert = ""
       THEN
           /\ response' = "form_errors"
           /\ UNCHANGED <<today, db>>
       ELSE
           /\ next_id(companies) <= max_rows
           /\ companies' = companies @@
                  (next_id(companies) :>
                      [name |-> name, number |-> number, address |-> address,
                       trade_license_exp |-> _parse_date(trade_license_exp_value),
                       pest_control_type |-> pest_control_type,
                       enginer |-> enginer_id])
           /\ response' = "redirect"
           /\ UNCHANGED <<today, engineers, permits, nextPk, reviews,
                          documents, changes>>
    /\ UNCHANGED calls

add_company(user, name, number, address, trade_license_exp_value, enginer_id, pest_control_type) ==
    add_company_within(MaxCompanies, user, name, number, address, trade_license_exp_value, enginer_id, pest_control_type)

\* the same view where the table is explored up to MaxCompanyRows rows
add_company_again(user, name, number, address, trade_license_exp_value, enginer_id, pest_control_type) ==
    add_company_within(MaxCompanyRows, user, name, number, address, trade_license_exp_value, enginer_id, pest_control_type)

(***************************************************************************)
(* The part of the three intake forms that names the company.              *)
(***************************************************************************)
\* the company the form selects: Company.objects.filter(id=company_id).first()
selected_company(form) == first_id(companies, form.company_id)

\* a typed field, or the selected company's column when the field is empty
company_name_of(form) ==
    IF form.company_name = "" /\ selected_company(form) # NoId
    THEN companies[selected_company(form)].name ELSE form.company_name

trade_license_no_of(form) ==
    IF form.trade_license_no = "" /\ selected_company(form) # NoId
    THEN companies[selected_company(form)].number ELSE form.trade_license_no

company_address_of(form) ==
    IF form.company_address = "" /\ selected_company(form) # NoId
    THEN companies[selected_company(form)].address ELSE form.company_address

trade_license_exp_of(form) ==
    IF form.trade_license_exp # "" THEN _parse_date(form.trade_license_exp)
    ELSE IF selected_company(form) # NoId
    THEN companies[selected_company(form)].trade_license_exp
    ELSE NoDate

\* the error codes of the company fields
company_errors(form) ==
    {code \in {"company_select_invalid", "company_name_required",
               "trade_license_no_required", "company_address_required",
               "trade_license_exp_invalid", "trade_license_exp_required"} :
        \/ code = "company_select_invalid"
           /\ form.company_id # NoId /\ selected_company(form) = NoId
        \/ code = "company_name_required" /\ company_name_of(form) = ""
        \/ code = "trade_license_no_required" /\ trade_license_no_of(form) = ""
        \/ code = "company_address_required" /\ company_address_of(form) = ""
        \/ code = "trade_license_exp_invalid"
           /\ form.trade_license_exp # ""
           /\ _parse_date(form.trade_license_exp) = NoDate
        \/ code = "trade_license_exp_required"
           /\ form.trade_license_exp = ""
           /\ trade_license_exp_of(form) = NoDate}

\* the error codes of the uploaded documents
document_errors(docs) ==
    {code \in {"documents_required", "documents_invalid"} :
        \/ code = "documents_required" /\ docs = <<>>
        \/ code = "documents_invalid" /\ invalid_docs(docs) # {}}

(***************************************************************************)
(* basetemplate, POST: the pest-control intake form.  No login and no      *)
(* role is asked for.                                                      *)
(***************************************************************************)
ValidPestForm ==
    [company_id |-> NoId, company_name |-> "Acme", trade_license_no |-> "TL-1",
     company_address |-> "addr", trade_license_exp |-> "day0",
     request_email |-> "mail", issue_date |-> "", expiry_date |-> "day0",
     engineer_name |-> "n1", engineer_email |-> "e1", engineer_phone |-> "p1",
     allowed_activities |-> <<"public_health_pest_control", "grain_pests">>,
     restricted_activities |-> <<"termite_control">>,
     documents |-> <<".PNG">>]

\* the forms submitted: the valid one and one variant per check of the view
PestForms ==
    {ValidPestForm,
     [ValidPestForm EXCEPT !.engineer_name = "n2"],
     [ValidPestForm EXCEPT !.engineer_name = "n2", !.documents = <<>>],
     [ValidPestForm EXCEPT !.company_id = 1, !.company_name = "",
                           !.trade_license_no = "", !.company_address = "",
                           !.trade_license_exp = "", !.engineer_name = "",
                           !.engineer_email = "", !.engineer_phone = "",
                           !.documents = <<".PNG">>],
     [ValidPestForm EXCEPT !.company_id = 9],
     [ValidPestForm EXCEPT !.engineer_email = "e9"],
     [ValidPestForm EXCEPT !.allowed_activities = <<"termite_control">>,
                           !.restricted_activities = <<>>],
     [ValidPestForm EXCEPT !.engineer_name = "n2", !.engineer_email = "e2",
                           !.engineer_phone = "p2"],
     [ValidPestForm EXCEPT !.engineer_phone = ""],
     [ValidPestForm EXCEPT !.engineer_name = "", !.engineer_email = "",
                           !.engineer_phone = ""],
     [ValidPestForm EXCEPT !.documents = <<".pdf", ".exe">>],
     [ValidPestForm EXCEPT !.request_email = ""],
     [ValidPestForm EXCEPT !.company_name = ""],
     [ValidPestForm EXCEPT !.trade_license_exp = "bad"]}

engineer_typed(form) ==
    form.engineer_name # "" \/ form.engineer_email # "" \/ form.engineer_phone # ""

engineer_complete(form) ==
    form.engineer_name # "" /\ form.engineer_email # "" /\ form.engineer_phone # ""

\* the engineer the form resolves to, or NoId
form_enginer(form) ==
    IF engineer_typed(form)
    THEN IF engineer_complete(form) THEN enginer_by_email(form.engineer_email)
         ELSE NoId
    ELSE IF selected_company(form) # NoId
    THEN companies[selected_company(form)].enginer
    ELSE NoId

\* the Enginer table once the form's engineer has been looked up: a typed
\* name or phone that differs from the row is saved at once
engineers_after_lookup(form) ==
    LET e == form_enginer(form)
    IN IF /\ engineer_typed(form) /\ e # NoId
          /\ \/ engineers[e].name # form.engineer_name
             \/ engineers[e].phone # form.engineer_phone
       THEN [engineers EXCEPT ![e].name = form.engineer_name,
                              ![e].phone = form.engineer_phone]
       ELSE engineers

engineer_errors(form) ==
    LET e == form_enginer(form)
    IN {code \in {"engineer_required", "engineer_not_registered",
                  "engineer_cert_required"} :
           \/ code = "engineer_required"
              /\ IF engineer_typed(form) THEN ~engineer_complete(form)
                 ELSE e = NoId
           \/ code = "engineer_not_registered"
              /\ engineer_complete(form) /\ e = NoId
           \/ code = "engineer_cert_required"
              /\ e # NoId /\ engineers[e].public_health_cert = ""}

basetemplate_errors(form) ==
    company_errors(form)
    \cup (IF form.request_email = "" THEN {"request_email_required"} ELSE {})
    \cup engineer_errors(form)
    \cup document_errors(form.documents)

\* separator.join(items)
RECURSIVE join(_, _)
join(separator, items) ==
    IF items = <<>> THEN ""
    ELSE IF Len(items) = 1 THEN items[1]
    ELSE items[1] \o separator \o join(separator, Tail(items))

\* ','.join(items) if items else None
joined_or_none(items) == IF items # <<>> THEN join(",", items) ELSE NoText

\* the permit row basetemplate stores: create, then the bundle saved on it
basetemplate_permit(company, form, pk) ==
    LET created == save([NewPermit(company, "order_received", "pest_control",
                                   _parse_date(form.expiry_date),
                                   _parse_date(form.issue_date), NoDate)
                            EXCEPT !.allowed_activities =
                                       joined_or_none(form.allowed_activities),
                                   !.restricted_activities =
                                       joined_or_none(form.restricted_activities)],
                        TRUE, pk, today)
    IN save([created EXCEPT !.request_documents_bundle = Len(form.documents)],
            FALSE, pk, today)

basetemplate(user, form) ==
    /\ IF basetemplate_errors(form) # {} THEN
           /\ engineers' = engineers_after_lookup(form)
           /\ response' = "form_errors"
           /\ UNCHANGED <<today, companies, permits, nextPk, reviews,
                          documents, changes>>
       ELSE
           LET up == _upsert_company(companies, company_name_of(form),
                                     trade_license_no_of(form),
                                     company_address_of(form),
                                     trade_license_exp_of(form),
                                     form_enginer(form))
               pk == nextPk
           IN /\ pk <= MaxPermits
              /\ Len(changes) + 2 <= MaxLog
              /\ engineers' = engineers_after_lookup(form)
              /\ companies' = up.table
              /\ permits' = permits @@ (pk :> basetemplate_permit(up.id, form, pk))
              /\ nextPk' = pk + 1
              /\ changes' =
                    _log_pirmet_change(
                        _log_pirmet_change(changes, pk, "created", user,
                            NoStatus, "order_received",
                            "Created from permit form (email request)."),
                        pk, "document_upload", user, NoStatus, NoStatus,
                        "Request documents bundled.")
              /\ response' = "render"
              /\ UNCHANGED <<today, reviews, documents>>
    /\ UNCHANGED calls

(***************************************************************************)
(* pesticide_transport_permit and waste_disposal_permit, POST: the two     *)
(* other intake forms.  Of the fields that are only required to be filled  *)
(* (contact number, vehicle, waste classification, ...) the form keeps     *)
(* one, details; the detail row they are stored in is not modelled.        *)
(***************************************************************************)
ValidOtherForm ==
    [company_id |-> NoId, company_name |-> "Acme", trade_license_no |-> "TL-1",
     company_address |-> "addr", trade_license_exp |-> "day0",
     details |-> "text", issue_date |-> "day0", expiry_date |-> "day0",
     receipt_no |-> "", receipt_date |-> "", documents |-> <<".PNG">>]

OtherForms ==
    {ValidOtherForm,
     [ValidOtherForm EXCEPT !.receipt_no = "R1", !.receipt_date = "day0"],
     [ValidOtherForm EXCEPT !.details = ""],
     [ValidOtherForm EXCEPT !.issue_date = "bad"],
     [ValidOtherForm EXCEPT !.documents = <<".pdf", ".exe">>]}

other_intake_errors(form) ==
    company_errors(form)
    \cup (IF form.details = "" THEN {"details_required"} ELSE {})
    \cup (IF form.issue_date = "" THEN {"issue_date_required"}
          ELSE IF _parse_date(form.issue_date) = NoDate
          THEN {"issue_date_invalid"} ELSE {})
    \cup (IF form.expiry_date = "" THEN {"expiry_date_required"}
          ELSE IF _parse_date(form.expiry_date) = NoDate
          THEN {"expiry_date_invalid"} ELSE {})
    \cup (IF form.receipt_date # "" /\ _parse_date(form.receipt_date) = NoDate
          THEN {"receipt_date_invalid"} ELSE {})
    \cup document_errors(form.documents)

\* the permit row the form stores: create, then the receipt number saved on it
other_intake_permit(company, permit_type, form, pk) ==
    LET created == save(NewPermit(company, "review_pending", permit_type,
                                  _parse_date(form.expiry_date),
                                  _parse_date(form.issue_date),
                                  _parse_date(form.receipt_date)),
                        TRUE, pk, today)
    IN IF form.receipt_no # ""
       THEN save([created EXCEPT !.PaymentNumber = form.receipt_no], FALSE, pk, today)
       ELSE created

other_intake_changes(pk, user, form, notes) ==
    LET two == _log_pirmet_change(
                   _log_pirmet_change(changes, pk, "created", user, NoStatus,
                                      "review_pending", notes),
                   pk, "document_upload", user, NoStatus, NoStatus,
                   "Documents uploaded")
    IN IF form.receipt_no # ""
       THEN _log_pirmet_change(two, pk, "payment_update", user, NoStatus,
                               NoStatus, "Payment receipt number provided")
       ELSE two

other_intake(permit_type, user, form, notes) ==
    /\ IF other_intake_errors(form) # {} THEN
           /\ response' = "form_errors"
           /\ UNCHANGED <<today, db>>
       ELSE
           LET up == _upsert_company(companies, company_name_of(form),
                                     trade_license_no_of(form),
                                     company_address_of(form),
                                     trade_license_exp_of(form), NoId)
               pk == nextPk
           IN /\ pk <= MaxPermits
              /\ Len(other_intake_changes(pk, user, form, notes)) <= MaxLog
              /\ companies' = up.table
              /\ permits' = permits @@
                    (pk :> other_intake_permit(up.id, permit_type, form, pk))
              /\ nextPk' = pk + 1
              /\ documents' = documents \o DocumentRows(pk, form.documents)
              /\ changes' = other_intake_changes(pk, user, form, notes)
              /\ response' = "render"
              /\ UNCHANGED <<today, engineers, reviews>>
    /\ UNCHANGED calls

pesticide_transport_permit(user, form) ==
    other_intake("pesticide_transport", user, form,
                 "Created from pesticide transport permit form.")

waste_disposal_permit(user, form) ==
    other_intake("waste_disposal", user, form,
                 "Created from waste disposal permit form.")

(***************************************************************************)
(* clearance_list, POST.                                                   *)
(***************************************************************************)
\* the actions whose branch of clearance_list (lines 964-1179) reads the
\* names review_errors and pirmet, which clearance_list binds nowhere before:
\* the first read raises NameError (review_errors) or UnboundLocalError
\* (pirmet), whoever asks and whatever the payload
UnboundActions ==
    {"update_request_email", "send_inspection_payment_link",
     "inspection_payment", "send_payment_link", "payment", "issue",
     "update_permit_details"}

clearance_list_unbound(user, action) ==
    /\ action \in UnboundActions
    /\ response' = IF ~is_authenticated(user) THEN "login" ELSE "exception"
    /\ UNCHANGED <<today, db>>
    /\ UNCHANGED calls

\* action == 'create'
clearance_list_create(user, company_id, expiry_value, docs) ==
    /\ IF ~is_authenticated(user) THEN
           /\ response' = "login"
           /\ UNCHANGED <<today, db>>
       ELSE IF \/ ~_can_data_entry(user)
               \/ first_id(companies, company_id) = NoId
               \/ _parse_date(expiry_value) = NoDate
               \/ document_errors(docs) # {}
       THEN
           /\ response' = "list_errors"
           /\ UNCHANGED <<today, db>>
       ELSE
           LET pk == nextPk
           IN /\ pk <= MaxPermits
              /\ Len(changes) + 2 <= MaxLog
              /\ permits' = permits @@
                    (pk :> save(NewPermit(company_id, "review_pending",
                                          "pest_control",
                                          _parse_date(expiry_value), NoDate,
                                          NoDate),
                                TRUE, pk, today))
              /\ nextPk' = pk + 1
              /\ documents' = documents \o DocumentRows(pk, docs)
              /\ changes' =
                    _log_pirmet_change(
                        _log_pirmet_change(changes, pk, "created", user,
                            NoStatus, "review_pending",
                            "Created from clearance list."),
                        pk, "document_upload", user, NoStatus, NoStatus,
                        "Documents uploaded")
              /\ response' = "redirect"
              /\ UNCHANGED <<today, engineers, companies, reviews>>
    /\ UNCHANGED calls

\* a review row inserted whether or not the permit has one
insert_review(rows, pirmet, inspector, isApproved, comments) ==
    rows \cup {[pirmet |-> pirmet, inspector |-> inspector,
                isApproved |-> isApproved, comments |-> comments]}

\* InspectorReview.objects.update_or_create(pirmet=pirmet, defaults={...})
update_or_create(rows, pirmet, inspector, isApproved, comments) ==
    LET row == [pirmet |-> pirmet, inspector |-> inspector,
                isApproved |-> isApproved, comments |-> comments]
    IN IF \E r \in rows : r.pirmet = pirmet
       THEN {r \in rows : r.pirmet # pirmet} \cup {row}
       ELSE rows \cup {row}

\* the row of an approved permit
approved_row_unsigned(row, user, remarks) ==
    [row EXCEPT !.status = "approved", !.approvedRemarks = remarks]

approved_row(row, user, remarks) ==
    [row EXCEPT !.status = "approved",
                !.approvedRemarks = remarks,
                !.approvedBy = IF is_authenticated(user) THEN user ELSE @]

\* the row of a permit returned for completion
needs_completion_row_unsigned(row, user, remarks) ==
    [row EXCEPT !.status = "needs_completion", !.unapprovedReason = remarks]

needs_completion_row(row, user, remarks) ==
    [row EXCEPT !.status = "needs_completion",
                !.unapprovedReason = remarks,
                !.unapprovedBy = IF is_authenticated(user) THEN user ELSE @]

\* a review that asks nothing of the status
review_status_unchecked(row) == TRUE

\* the status a review asks of the permit
review_status_ok(row) == row.status = "review_pending"

\* the errors of a review on the list page (the role is checked before)
clearance_review_errors(action, pirmet_id, inspector_id, remarks) ==
    {code \in {"permit_not_found", "not_waiting_for_review",
               "inspector_invalid", "notes_required"} :
        \/ code = "permit_not_found" /\ first_id(permits, pirmet_id) = NoId
        \/ code = "not_waiting_for_review"
           /\ first_id(permits, pirmet_id) # NoId
           /\ ~review_status_ok(permits[pirmet_id])
        \/ code = "inspector_invalid" /\ first_id(engineers, inspector_id) = NoId
        \/ code = "notes_required" /\ action # "approve" /\ remarks = ""}

\* what a review stores, on the list page and on the detail page alike
apply_review(action, user, pirmet_id, inspector_id, remarks) ==
    LET old == permits[pirmet_id]
        new == IF action = "approve" THEN approved_row(old, user, remarks)
               ELSE needs_completion_row(old, user, remarks)
    IN /\ Len(changes) + 1 <= MaxLog
       /\ reviews' = update_or_create(reviews, pirmet_id, inspector_id,
                                      action = "approve", remarks)
       /\ permits' = [permits EXCEPT ![pirmet_id] = save(new, FALSE, pirmet_id, today)]
       /\ changes' = _log_pirmet_change(changes, pirmet_id, "status_change", user,
                         old.status, new.status,
                         IF remarks # "" THEN remarks
                         ELSE IF action = "approve" THEN "Approved by inspector."
                         ELSE "Returned for completion by inspector.")
       /\ UNCHANGED <<today, engineers, companies, nextPk, documents>>

ReviewActions == {"approve", "needs_completion", "reject"}

\* action == 'approve', action in {'needs_completion', 'reject'}
clearance_list_review(user, action, pirmet_id, inspector_id, raw_remarks) ==
    /\ action \in ReviewActions
    /\ IF ~is_authenticated(user) THEN
           /\ response' = "login"
           /\ UNCHANGED <<today, db>>
       ELSE IF \/ ~_can_inspector(user)
               \/ clearance_review_errors(action, pirmet_id, inspector_id,
                                          strip(raw_remarks)) # {}
       THEN
           /\ response' = "list_errors"
           /\ UNCHANGED <<today, db>>
       ELSE
           /\ apply_review(action, user, pirmet_id, inspector_id, strip(raw_remarks))
           /\ response' = "redirect"
    /\ UNCHANGED calls

\* pirmet.delete(): the row and, by on_delete=CASCADE, the rows that point to it
delete_reviews_kept(rows, pirmet) == rows

delete_reviews(rows, pirmet) == {r \in rows : r.pirmet # pirmet}

delete_documents(rows, pirmet) == SelectSeq(rows, LAMBDA r : r.pirmet # pirmet)

delete_changes(rows, pirmet) == SelectSeq(rows, LAMBDA r : r.pirmet # pirmet)

\* action == 'delete'
clearance_list_delete(user, pirmet_id) ==
    /\ IF ~is_authenticated(user) THEN
           /\ response' = "login"
           /\ UNCHANGED <<today, db>>
       ELSE IF ~_can_admin(user) \/ first_id(permits, pirmet_id) = NoId THEN
           /\ response' = "list_errors"
           /\ UNCHANGED <<today, db>>
       ELSE
           /\ permits' = [p \in DOMAIN permits \ {pirmet_id} |-> permits[p]]
           /\ reviews' = delete_reviews(reviews, pirmet_id)
           /\ documents' = delete_documents(documents, pirmet_id)
           /\ changes' = delete_changes(changes, pirmet_id)
           /\ response' = "redirect"
           /\ UNCHANGED <<today, engineers, companies, nextPk>>
    /\ UNCHANGED calls

\* action names no branch of either page tests for
UnknownActions == {"receive_for_inspection", "submit_inspection_report", "archive"}

\* any action name clearance_list has no branch for: redirect('clearance_list')
clearance_list_other(user, action) ==
    /\ action \in UnknownActions \cup {"complete_missing"}
    /\ response' = IF ~is_authenticated(user) THEN "login" ELSE "redirect"
    /\ UNCHANGED <<today, db>>
    /\ UNCHANGED calls

(***************************************************************************)
(* pirmet_detail, POST.  The permit is loaded first (404 when there is     *)
(* none), then the login is checked, then the action is read.              *)
(***************************************************************************)
\* _append_documents_bundle: the bundle holds the old entries and the new
\* ones, and is saved on the permit (save=True)
_append_documents_bundle(row, docs, pk) ==
    save([row EXCEPT !.request_documents_bundle = @ + Len(docs)], FALSE, pk, today)

\* a completion that asks nothing of the status
completion_status_unchecked(row) == TRUE

\* the status complete_missing asks of the permit
completion_status_ok(row) == row.status = "needs_completion"

complete_missing_errors(user, id, notes, docs) ==
    {code \in {"no_permission", "not_needs_completion", "documents_invalid",
               "nothing_given"} :
        \/ code = "no_permission" /\ ~_can_data_entry(user)
        \/ code = "not_needs_completion" /\ ~completion_status_ok(permits[id])
        \/ code = "documents_invalid" /\ invalid_docs(docs) # {}
        \/ code = "nothing_given" /\ docs = <<>> /\ notes = ""}

\* the change rows of a completion with the change of status written first
complete_missing_changes_status_first(user, id, notes, docs, old_status) ==
    LET moved == _log_pirmet_change(changes, id, "status_change", user,
                     old_status, "review_pending",
                     "Completed missing requirements.")
        uploaded ==
            IF docs = <<>> THEN moved
            ELSE _log_pirmet_change(moved, id, "document_upload", user,
                     NoStatus, NoStatus, "Documents uploaded")
    IN IF notes = "" THEN uploaded
       ELSE _log_pirmet_change(uploaded, id, "details_update", user,
                NoStatus, NoStatus, notes)

\* the change rows of a completion, in the order they are written
complete_missing_changes(user, id, notes, docs, old_status) ==
    LET uploaded ==
            IF docs = <<>> THEN changes
            ELSE _log_pirmet_change(changes, id, "document_upload", user,
                     NoStatus, NoStatus,
                     IF permits[id].permit_type = "pest_control"
                     THEN "Additional documents appended to bundle."
                     ELSE "Documents uploaded")
        noted ==
            IF notes = "" THEN uploaded
            ELSE _log_pirmet_change(uploaded, id, "details_update", user,
                     NoStatus, NoStatus, notes)
    IN _log_pirmet_change(noted, id, "status_change", user, old_status,
           "review_pending", "Completed missing requirements.")

\* action == 'complete_missing'
pirmet_detail_complete_missing(user, id, raw_notes, docs) ==
    /\ IF first_id(permits, id) = NoId THEN
           /\ response' = "not_found"
           /\ UNCHANGED <<today, db>>
       ELSE IF ~is_authenticated(user) THEN
           /\ response' = "login"
           /\ UNCHANGED <<today, db>>
       ELSE IF complete_missing_errors(user, id, strip(raw_notes), docs) # {} THEN
           /\ response' = "detail_errors"
           /\ UNCHANGED <<today, db>>
       ELSE
           LET old == permits[id]
               pest == old.permit_type = "pest_control"
               bundled == IF docs # <<>> /\ pest
                          THEN _append_documents_bundle(old, docs, id) ELSE old
               new == [bundled EXCEPT !.status = "review_pending"]
               log == complete_missing_changes(user, id, strip(raw_notes), docs,
                                               old.status)
           IN /\ Len(log) <= MaxLog
              /\ documents' = IF pest THEN documents
                              ELSE documents \o DocumentRows(id, docs)
              /\ permits' = [permits EXCEPT ![id] = save(new, FALSE, id, today)]
              /\ changes' = log
              /\ response' = "redirect"
              /\ UNCHANGED <<today, engineers, companies, nextPk, reviews>>
    /\ UNCHANGED calls

\* the errors of a review on the detail page
detail_review_errors(user, action, id, inspector_id, remarks) ==
    {code \in {"no_permission", "not_waiting_for_review", "inspector_invalid",
               "notes_required"} :
        \/ code = "no_permission" /\ ~_can_inspector(user)
        \/ code = "not_waiting_for_review" /\ ~review_status_ok(permits[id])
        \/ code = "inspector_invalid" /\ first_id(engineers, inspector_id) = NoId
        \/ code = "notes_required" /\ action # "approve" /\ remarks = ""}

\* action in {'approve', 'needs_completion', 'reject'}
pirmet_detail_review(user, action, id, inspector_id, raw_remarks) ==
    /\ action \in ReviewActions
    /\ IF first_id(permits, id) = NoId THEN
           /\ response' = "not_found"
           /\ UNCHANGED <<today, db>>
       ELSE IF ~is_authenticated(user) THEN
           /\ response' = "login"
           /\ UNCHANGED <<today, db>>
       ELSE IF detail_review_errors(user, action, id, inspector_id,
                                    strip(raw_remarks)) # {}
       THEN
           /\ response' = "detail_errors"
           /\ UNCHANGED <<today, db>>
       ELSE
           /\ apply_review(action, user, id, inspector_id, strip(raw_remarks))
           /\ response' = "redirect"
    /\ UNCHANGED calls

\* any action name pirmet_detail has no branch for, those of UnboundActions
\* among them: the page is rendered with no error
pirmet_detail_other_deleting(user, action, id) ==
    /\ action \in UnknownActions \cup UnboundActions \cup {"create", "delete"}
    /\ response' = IF first_id(permits, id) = NoId THEN "not_found"
                   ELSE IF ~is_authenticated(user) THEN "login"
                   ELSE "render"
    /\ permits' = [p \in DOMAIN permits \ {id} |-> permits[p]]
    /\ UNCHANGED <<today, engineers, companies, nextPk, reviews, documents,
                   changes>>
    /\ UNCHANGED calls

pirmet_detail_other(user, action, id) ==
    /\ action \in UnknownActions \cup UnboundActions \cup {"create", "delete"}
    /\ response' = IF first_id(permits, id) = NoId THEN "not_found"
                   ELSE IF ~is_authenticated(user) THEN "login"
                   ELSE "render"
    /\ UNCHANGED <<today, db>>
    /\ UNCHANGED calls

Init ==
    /\ today = 0
    /\ engineers = <<>>
    /\ companies = <<>>
    /\ permits = <<>>
    /\ nextPk = 1
    /\ reviews = {}
    /\ documents = <<>>
    /\ changes = <<>>
    /\ response = "render"
    /\ account = "anon"
    /\ granted = <<>>
    /\ activity_keys = <<>>
    /\ inflight = <<>>

Next ==
    \/ Tick
    \/ \E user \in Users, public_health_cert \in {"", ".pdf"} :
          enginer_list(user, "n1", "e1", "p1", public_health_cert, "")
    \/ \E user \in Users, enginer_id \in EngineerIds,
          pest_control_type \in {"", "public_health_pest_control", "termite_control"} :
          add_company(user, "Acme", "TL-1", "addr", "", enginer_id, pest_control_type)
    \/ \E user \in Users, form \in PestForms : basetemplate(user, form)
    \/ \E user \in Users, form \in OtherForms : pesticide_transport_permit(user, form)
    \/ \E user \in Users, form \in OtherForms : waste_disposal_permit(user, form)
    \/ \E user \in Users, action \in UnboundActions : clearance_list_unbound(user, action)
    \/ \E user \in Users, company_id \in CompanyIds, expiry_value \in DateInputs,
          docs \in DocPayloads :
          clearance_list_create(user, company_id, expiry_value, docs)
    \/ \E user \in Users, action \in ReviewActions, pirmet_id \in PermitIds,
          inspector_id \in EngineerIds, raw_remarks \in RawText :
          clearance_list_review(user, action, pirmet_id, inspector_id, raw_remarks)
    \/ \E user \in Users, pirmet_id \in PermitIds : clearance_list_delete(user, pirmet_id)
    \/ \E user \in Users, action \in UnknownActions \cup {"complete_missing"} :
          clearance_list_other(user, action)
    \/ \E user \in Users, id \in PermitIds, raw_notes \in RawText, docs \in DocPayloads :
          pirmet_detail_complete_missing(user, id, raw_notes, docs)
    \/ \E user \in Users, action \in ReviewActions, id \in PermitIds,
          inspector_id \in EngineerIds, raw_remarks \in RawText :
          pirmet_detail_review(user, action, id, inspector_id, raw_remarks)
    \/ \E user \in Users,
          action \in UnknownActions \cup UnboundActions \cup {"create", "delete"},
          id \in PermitIds :
          pirmet_detail_other(user, action, id)

Spec == Init /\ [][Next]_vars

(***************************************************************************)
(* The database as it is found when rows are already stored: an engineer,  *)
(* a company, and one permit in any status and of any type (the admin site *)
(* edits every column of the registered models).                           *)
(***************************************************************************)
InitStored ==
    /\ today = 0
    /\ engineers = 1 :> [name |-> "n1", email |-> "e1", phone |-> "p1",
                         public_health_cert |-> ".pdf", termite_cert |-> ""]
    /\ companies = 1 :> [name |-> "Acme", number |-> "TL-1", address |-> "addr",
                         trade_license_exp |-> 0,
                         pest_control_type |-> "public_health_pest_control",
                         enginer |-> 1]
    /\ \E status \in STATUS_CHOICES, permit_type \in PERMIT_TYPES :
          permits = 1 :> save(NewPermit(1, status, permit_type, 0, NoDate, NoDate),
                              TRUE, 1, 0)
    /\ nextPk = 2
    /\ reviews = {}
    /\ documents = <<>>
    /\ changes = <<>>
    /\ response = "render"
    /\ account = "anon"
    /\ granted = <<>>
    /\ activity_keys = <<>>
    /\ inflight = <<>>

SpecStored == InitStored /\ [][Next]_vars

(***************************************************************************)
(* The POST requests to clearance_list and to pirmet_detail alone, on the  *)
(* rows already stored.                                                    *)
(***************************************************************************)
NextPosts ==
    \/ \E user \in Users, action \in UnboundActions : clearance_list_unbound(user, action)
    \/ \E user \in Users, company_id \in CompanyIds, expiry_value \in DateInputs,
          docs \in DocPayloads :
          clearance_list_create(user, company_id, expiry_value, docs)
    \/ \E user \in Users, action \in ReviewActions, pirmet_id \in PermitIds,
          inspector_id \in EngineerIds, raw_remarks \in RawText :
          clearance_list_review(user, action, pirmet_id, inspector_id, raw_remarks)
    \/ \E user \in Users, pirmet_id \in PermitIds : clearance_list_delete(user, pirmet_id)
    \/ \E user \in Users, action \in UnknownActions \cup {"complete_missing"} :
          clearance_list_other(user, action)
    \/ \E user \in Users, id \in PermitIds, raw_notes \in RawText, docs \in DocPayloads :
          pirmet_detail_complete_missing(user, id, raw_notes, docs)
    \/ \E user \in Users, action \in ReviewActions, id \in PermitIds,
          inspector_id \in EngineerIds, raw_remarks \in RawText :
          pirmet_detail_review(user, action, id, inspector_id, raw_remarks)
    \/ \E user \in Users,
          action \in UnknownActions \cup UnboundActions \cup {"create", "delete"},
          id \in PermitIds :
          pirmet_detail_other(user, action, id)

SpecPosts == InitStored /\ [][NextPosts]_vars

(***************************************************************************)
(* The database once enginer_list has registered two engineers: the first  *)
(* uploaded both certificates, the second the public-health one only.      *)
(***************************************************************************)
InitCertified ==
    /\ today = 0
    /\ engineers = (1 :> [name |-> "n1", email |-> "e1", phone |-> "p1",
                          public_health_cert |-> ".pdf", termite_cert |-> ".pdf"])
                   @@ (2 :> [name |-> "n2", email |-> "e2", phone |-> "p2",
                             public_health_cert |-> ".pdf", termite_cert |-> ""])
    /\ companies = <<>>
    /\ permits = <<>>
    /\ nextPk = 1
    /\ reviews = {}
    /\ documents = <<>>
    /\ changes = <<>>
    /\ response = "render"
    /\ account = "anon"
    /\ granted = <<>>
    /\ activity_keys = <<>>
    /\ inflight = <<>>

SpecCertified == InitCertified /\ [][Next]_vars

(***************************************************************************)
(* The operations that store Company rows (add_company and the upsert of   *)
(* the three intake forms), from the empty database.                       *)
(***************************************************************************)
NextCompany ==
    \/ \E user \in Users, public_health_cert \in {"", ".pdf"} :
          enginer_list(user, "n1", "e1", "p1", public_health_cert, "")
    \/ \E user \in Users, enginer_id \in EngineerIds,
          pest_control_type \in {"", "public_health_pest_control", "termite_control"} :
          add_company_again(user, "Acme", "TL-1", "addr", "", enginer_id, pest_control_type)
    \/ \E user \in Users, form \in PestForms : basetemplate(user, form)
    \/ \E user \in Users, form \in OtherForms : pesticide_transport_permit(user, form)
    \/ \E user \in Users, form \in OtherForms : waste_disposal_permit(user, form)

SpecCompany == Init /\ [][NextCompany]_vars

(***************************************************************************)
(* The capability functions asked of an account, one capability at a time, *)
(* as a view does before it dispatches an action.                          *)
(***************************************************************************)
ask(capability) ==
    /\ capability \notin DOMAIN granted
    /\ granted' = granted @@ (capability :> can(capability, account))
    /\ UNCHANGED <<today, db, response, account, activity_keys, inflight>>

InitAccount ==
    /\ today = 0
    /\ engineers = <<>>
    /\ companies = <<>>
    /\ permits = <<>>
    /\ nextPk = 1
    /\ reviews = {}
    /\ documents = <<>>
    /\ changes = <<>>
    /\ response = "render"
    /\ account \in Accounts
    /\ granted = <<>>
    /\ activity_keys = <<>>
    /\ inflight = <<>>

NextAccount == \E capability \in Capabilities : ask(capability)

SpecAccount == InitAccount /\ [][NextAccount]_vars

(***************************************************************************)
(* company_list: the activity list of a company row, which the view puts   *)
(* in order before it is shown.                                            *)
(***************************************************************************)
\* the keys of activity_map
ActivityKeys ==
    {"public_health_pest_control", "termite_control", "grain_pests",
     "flying_insects", "rodents"}

\* the lists a permit or a company gives: up to MaxKeys keys
ActivityLists == UNION {[1..n -> ActivityKeys] : n \in 0..MaxKeys}

Range(items) == {items[i] : i \in DOMAIN items}

normalize_appending(keys) ==
    IF "termite_control" \in Range(keys)
       /\ "public_health_pest_control" \notin Range(keys)
    THEN keys \o <<"public_health_pest_control">>
    ELSE keys

normalize(keys) ==
    IF "termite_control" \in Range(keys)
       /\ "public_health_pest_control" \notin Range(keys)
    THEN <<"public_health_pest_control">> \o keys
    ELSE keys

company_list_normalize ==
    /\ activity_keys' = normalize(activity_keys)
    /\ UNCHANGED <<today, db, response, account, granted, inflight>>

InitActivities ==
    /\ today = 0
    /\ engineers = <<>>
    /\ companies = <<>>
    /\ permits = <<>>
    /\ nextPk = 1
    /\ reviews = {}
    /\ documents = <<>>
    /\ changes = <<>>
    /\ response = "render"
    /\ account = "anon"
    /\ granted = <<>>
    /\ activity_keys \in ActivityLists
    /\ inflight = <<>>

SpecActivities == InitActivities /\ [][company_list_normalize]_vars

(***************************************************************************)
(* Two reviews of one permit under way side by side.  The views open no    *)
(* transaction and take no lock, so every ORM call of a request is a step  *)
(* of its own and the steps of the two requests interleave.  A request is  *)
(* named by its action; pirmet is the row it loaded, which pirmet.save()   *)
(* writes back whole.                                                      *)
(***************************************************************************)
RacedPermit == 1

ReviewRequests == {"approve", "needs_completion"}

\* pirmet = PirmetClearance.objects.filter(id=pirmet_id).first(), and the
\* checks that follow it
review_load(action) ==
    /\ action \in DOMAIN inflight
    /\ inflight[action].at = "load"
    /\ \E user \in Users, raw_remarks \in RawText :
          IF ~is_authenticated(user) THEN
              /\ response' = "login"
              /\ inflight' = [inflight EXCEPT ![action].at = "answered"]
          ELSE IF \/ ~_can_inspector(user)
                  \/ clearance_review_errors(action, RacedPermit, 1,
                                             strip(raw_remarks)) # {}
          THEN
              /\ response' = "list_errors"
              /\ inflight' = [inflight EXCEPT ![action].at = "answered"]
          ELSE
              /\ response' = response
              /\ inflight' = [inflight EXCEPT
                                 ![action] = [at |-> "update_or_create",
                                              user |-> user,
                                              remarks |-> strip(raw_remarks),
                                              pirmet |-> permits[RacedPermit]]]
    /\ UNCHANGED <<today, db, account, granted, activity_keys>>

\* InspectorReview.objects.update_or_create(pirmet=pirmet, defaults={...})
review_update_or_create(action) ==
    /\ action \in DOMAIN inflight
    /\ inflight[action].at = "update_or_create"
    /\ reviews' = update_or_create(reviews, RacedPermit, 1, action = "approve",
                                   inflight[action].remarks)
    /\ inflight' = [inflight EXCEPT ![action].at = "save"]
    /\ UNCHANGED <<today, engineers, companies, permits, nextPk, documents,
                   changes, response, account, granted, activity_keys>>

\* old_status = pirmet.status; pirmet.status = ...; pirmet.save()
review_save(action) ==
    /\ action \in DOMAIN inflight
    /\ inflight[action].at = "save"
    /\ LET own == inflight[action]
           new == IF action = "approve"
                  THEN approved_row(own.pirmet, own.user, own.remarks)
                  ELSE needs_completion_row(own.pirmet, own.user, own.remarks)
       IN permits' = [permits EXCEPT
                         ![RacedPermit] = save(new, FALSE, RacedPermit, today)]
    /\ inflight' = [inflight EXCEPT ![action].at = "log"]
    /\ UNCHANGED <<today, engineers, companies, nextPk, reviews, documents,
                   changes, response, account, granted, activity_keys>>

\* _log_pirmet_change(pirmet, 'status_change', ...); return redirect(...)
review_log(action) ==
    /\ action \in DOMAIN inflight
    /\ inflight[action].at = "log"
    /\ LET own == inflight[action]
       IN changes' = _log_pirmet_change(changes, RacedPermit, "status_change",
                         own.user, own.pirmet.status,
                         IF action = "approve" THEN "approved"
                         ELSE "needs_completion",
                         IF own.remarks # "" THEN own.remarks
                         ELSE IF action = "approve" THEN "Approved by inspector."
                         ELSE "Returned for completion by inspector.")
    /\ response' = "redirect"
    /\ inflight' = [inflight EXCEPT ![action].at = "answered"]
    /\ UNCHANGED <<today, engineers, companies, permits, nextPk, reviews,
                   documents, account, granted, activity_keys>>

\* a request that has not loaded the permit yet
Arrived == [at |-> "load", user |-> NoUser, remarks |-> "", pirmet |-> <<>>]

\* the permit waits for its review when the two requests arrive
InitReviewRace ==
    /\ today = 0
    /\ engineers = 1 :> [name |-> "n1", email |-> "e1", phone |-> "p1",
                         public_health_cert |-> ".pdf", termite_cert |-> ""]
    /\ companies = 1 :> [name |-> "Acme", number |-> "TL-1", address |-> "addr",
                         trade_license_exp |-> 0,
                         pest_control_type |-> "public_health_pest_control",
                         enginer |-> 1]
    /\ \E permit_type \in PERMIT_TYPES :
          permits = RacedPermit :>
                      save(NewPermit(1, "review_pending", permit_type, 0,
                                     NoDate, NoDate), TRUE, RacedPermit, 0)
    /\ nextPk = RacedPermit + 1
    /\ reviews = {}
    /\ documents = <<>>
    /\ changes = <<ChangeRow(RacedPermit, "created", "clerk", NoStatus,
                             "review_pending", "Created from clearance list.")>>
    /\ response = "render"
    /\ account = "anon"
    /\ granted = <<>>
    /\ activity_keys = <<>>
    /\ inflight = [action \in ReviewRequests |-> Arrived]

NextReviewRace ==
    \/ \E action \in ReviewRequests : review_load(action)
    \/ \E action \in ReviewRequests : review_update_or_create(action)
    \/ \E action \in ReviewRequests : review_save(action)
    \/ \E action \in ReviewRequests : review_log(action)

SpecReviewRace == InitReviewRace /\ [][NextReviewRace]_vars

(***************************************************************************)
(* Two intake forms under way side by side.  _upsert_company looks the     *)
(* pair (name, number) up and then creates or saves the row in a second    *)
(* ORM call; no constraint of the Company table makes the pair unique.     *)
(***************************************************************************)
IntakeRequests == {"first", "second"}

\* the form is read and checked;
\* company = Company.objects.filter(name=name, number=number).first()
intake_lookup(request) ==
    /\ request \in DOMAIN inflight
    /\ inflight[request].at = "lookup"
    /\ \E form \in OtherForms, permit_type \in {"pesticide_transport", "waste_disposal"} :
          IF other_intake_errors(form) # {} THEN
              /\ response' = "form_errors"
              /\ inflight' = [inflight EXCEPT ![request].at = "answered"]
          ELSE
              /\ response' = response
              /\ inflight' = [inflight EXCEPT
                                 ![request] = [at |-> "store",
                                               form |-> form,
                                               permit_type |-> permit_type,
                                               company |->
                                                   company_by_key(companies,
                                                       company_name_of(form),
                                                       trade_license_no_of(form))]]
    /\ UNCHANGED <<today, db, account, granted, activity_keys>>

\* if company: ... company.save(); return company
\* return Company.objects.create(...)
intake_store(request) ==
    /\ request \in DOMAIN inflight
    /\ inflight[request].at = "store"
    /\ LET own == inflight[request]
           address == company_address_of(own.form)
           trade_license_exp == trade_license_exp_of(own.form)
       IN IF own.company # NoId
          THEN /\ companies' =
                     [companies EXCEPT
                         ![own.company].address = IF address # "" THEN address ELSE @,
                         ![own.company].trade_license_exp =
                             IF trade_license_exp # NoDate
                             THEN trade_license_exp ELSE @]
               /\ inflight' = [inflight EXCEPT ![request].at = "create"]
          ELSE /\ companies' = companies @@ (next_id(companies) :>
                     [name |-> company_name_of(own.form),
                      number |-> trade_license_no_of(own.form),
                      address |-> address,
                      trade_license_exp |-> trade_license_exp,
                      pest_control_type |-> "",
                      enginer |-> NoId])
               /\ inflight' = [inflight EXCEPT ![request].at = "create",
                                               ![request].company = next_id(companies)]
    /\ UNCHANGED <<today, engineers, permits, nextPk, reviews, documents,
                   changes, response, account, granted, activity_keys>>

\* PirmetClearance.objects.create(company=company, ...) and the rows that
\* follow it: the documents and the change log of the new permit
intake_create(request) ==
    /\ request \in DOMAIN inflight
    /\ inflight[request].at = "create"
    /\ LET own == inflight[request]
           pk == nextPk
           notes == IF own.permit_type = "waste_disposal"
                    THEN "Created from waste disposal permit form."
                    ELSE "Created from pesticide transport permit form."
       IN /\ permits' = permits @@
                (pk :> other_intake_permit(own.company, own.permit_type,
                                           own.form, pk))
          /\ nextPk' = pk + 1
          /\ documents' = documents \o DocumentRows(pk, own.form.documents)
          /\ \E user \in Users :
                changes' = other_intake_changes(pk, user, own.form, notes)
    /\ response' = "render"
    /\ inflight' = [inflight EXCEPT ![request].at = "answered"]
    /\ UNCHANGED <<today, engineers, companies, reviews, account, granted,
                   activity_keys>>

\* a form that has been posted and not yet read
Posting == [at |-> "lookup", form |-> <<>>, permit_type |-> "", company |-> NoId]

\* no company is stored when the two forms arrive
InitUpsertRace ==
    /\ today = 0
    /\ engineers = <<>>
    /\ companies = <<>>
    /\ permits = <<>>
    /\ nextPk = 1
    /\ reviews = {}
    /\ documents = <<>>
    /\ changes = <<>>
    /\ response = "render"
    /\ account = "anon"
    /\ granted = <<>>
    /\ activity_keys = <<>>
    /\ inflight = [request \in IntakeRequests |-> Posting]

NextUpsertRace ==
    \/ \E request \in IntakeRequests : intake_lookup(request)
    \/ \E request \in IntakeRequests : intake_store(request)
    \/ \E request \in IntakeRequests : intake_create(request)

SpecUpsertRace == InitUpsertRace /\ [][NextUpsertRace]_vars

(***************************************************************************)
(* Requests of the payment stage under way side by side on one permit.     *)
(* Their branches of clearance_list read review_errors or pirmet in their  *)
(* first statement, before any ORM call: the request is answered there,    *)
(* having loaded and saved nothing.                                        *)
(***************************************************************************)
PaymentStageRequests == {"issue", "update_permit_details", "payment"}

\* if not _can_admin(request.user): review_errors.append(...)
\* if pirmet.status != ...: review_errors.append(...)
payment_stage_dispatch(action) ==
    /\ action \in DOMAIN inflight
    /\ action \in UnboundActions
    /\ inflight[action].at = "posted"
    /\ \E user \in Users :
          /\ response' = IF ~is_authenticated(user) THEN "login" ELSE "exception"
          /\ inflight' = [inflight EXCEPT ![action] = [at |-> "answered",
                                                       user |-> user]]
    /\ UNCHANGED <<today, db, account, granted, activity_keys>>

\* the permit is stored, in any status, when the requests arrive
InitPaymentStageRace ==
    /\ today = 0
    /\ engineers = 1 :> [name |-> "n1", email |-> "e1", phone |-> "p1",
                         public_health_cert |-> ".pdf", termite_cert |-> ""]
    /\ companies = 1 :> [name |-> "Acme", number |-> "TL-1", address |-> "addr",
                         trade_license_exp |-> 0,
                         pest_control_type |-> "public_health_pest_control",
                         enginer |-> 1]
    /\ \E status \in STATUS_CHOICES, permit_type \in PERMIT_TYPES :
          permits = RacedPermit :>
                      save(NewPermit(1, status, permit_type, 0, NoDate, NoDate),
                           TRUE, RacedPermit, 0)
    /\ nextPk = RacedPermit + 1
    /\ reviews = {}
    /\ documents = <<>>
    /\ changes = <<>>
    /\ response = "render"
    /\ account = "anon"
    /\ granted = <<>>
    /\ activity_keys = <<>>
    /\ inflight = [action \in PaymentStageRequests |->
                      [at |-> "posted", user |-> NoUser]]

NextPaymentStageRace ==
    \E action \in PaymentStageRequests : payment_stage_dispatch(action)

SpecPaymentStageRace == InitPaymentStageRace /\ [][NextPaymentStageRace]_vars

(***************************************************************************)
(* enginer_detail, POST: certificates uploaded for a registered engineer.  *)
(* The EnginerStatusLog rows it writes are not modelled.                   *)
(***************************************************************************)
\* the certificate files a request may carry: none, or a file known by the
\* extension of its name
CertFiles == {"", ".pdf", ".PNG", ".exe"}

\* an order of the certificates that asks nothing
termite_needs_public_health_unchecked(termite_cert, public_health_cert, enginer) == FALSE

\* termite_cert and not (public_health_cert or enginer.public_health_cert)
termite_needs_public_health(termite_cert, public_health_cert, enginer) ==
    termite_cert # "" /\ public_health_cert = "" /\ enginer.public_health_cert = ""

enginer_detail(user, id, public_health_cert, termite_cert) ==
    /\ IF ~is_authenticated(user) THEN
           /\ response' = "login"
           /\ UNCHANGED <<today, db>>
       ELSE IF first_id(engineers, id) = NoId THEN
           /\ response' = "not_found"
           /\ UNCHANGED <<today, db>>
       ELSE IF ~_can_data_entry(user) THEN
           /\ response' = "forbidden"
           /\ UNCHANGED <<today, db>>
       ELSE IF \/ public_health_cert = "" /\ termite_cert = ""
               \/ invalid_docs(SelectSeq(<<public_health_cert, termite_cert>>,
                                         LAMBDA f : f # "")) # {}
               \/ termite_needs_public_health(termite_cert, public_health_cert,
                                              engineers[id])
       THEN
           /\ response' = "detail_errors"
           /\ UNCHANGED <<today, db>>
       ELSE
           /\ engineers' =
                 [engineers EXCEPT
                     ![id].public_health_cert =
                         IF public_health_cert # "" THEN public_health_cert ELSE @,
                     ![id].termite_cert =
                         IF termite_cert # "" THEN termite_cert ELSE @]
           /\ response' = "redirect"
           /\ UNCHANGED <<today, companies, permits, nextPk, reviews,
                          documents, changes>>
    /\ UNCHANGED calls

\* one engineer is stored without certificates (both columns are optional)
\* when the registrations and uploads begin
InitEngineers ==
    /\ today = 0
    /\ engineers = 1 :> [name |-> "n0", email |-> "e0", phone |-> "p0",
                         public_health_cert |-> "", termite_cert |-> ""]
    /\ companies = <<>>
    /\ permits = <<>>
    /\ nextPk = 1
    /\ reviews = {}
    /\ documents = <<>>
    /\ changes = <<>>
    /\ response = "render"
    /\ account = "anon"
    /\ granted = <<>>
    /\ activity_keys = <<>>
    /\ inflight = <<>>

NextEngineers ==
    \/ \E user \in Users, public_health_cert \in CertFiles, termite_cert \in CertFiles :
          enginer_list(user, "n1", "e1", "p1", public_health_cert, termite_cert)
    \/ \E user \in Users, id \in 0..2, public_health_cert \in CertFiles,
          termite_cert \in CertFiles :
          enginer_detail(user, id, public_health_cert, termite_cert)

SpecEngineers == InitEngineers /\ [][NextEngineers]_vars

(***************************************************************************)
(* The transition table of the specification (section 4.1): the statuses   *)
(* in which each action is allowed on a stored permit, and the capability  *)
(* it asks for.                                                            *)
(***************************************************************************)
TransitionTable ==
    ({"order_received", "inspection_payment_pending"}
        \X {"send_inspection_payment_link"})
    \cup ({"inspection_payment_pending"} \X {"inspection_payment"})
    \cup ({"inspection_pending"}
            \X {"receive_for_inspection", "submit_inspection_report"})
    \cup ({"review_pending"} \X {"approve", "needs_completion"})
    \cup ({"needs_completion"} \X {"complete_missing"})
    \cup ({"inspection_completed", "approved"} \X {"send_payment_link"})
    \cup ({"payment_pending"} \X {"payment"})
    \cup ({"payment_completed", "inspection_completed"} \X {"issue"})
    \cup ({"payment_completed", "issued"} \X {"update_permit_details"})
    \cup (STATUS_CHOICES \X {"delete"})

\* the action names a POST may carry
ActionNames ==
    UnboundActions \cup ReviewActions \cup UnknownActions
    \cup {"create", "complete_missing", "delete"}

\* the changes of status the table and the canonical path allow
TableEdges ==
    {<<"order_received", "inspection_payment_pending">>,
     <<"inspection_payment_pending", "inspection_pending">>,
     <<"inspection_payment_pending", "review_pending">>,
     <<"inspection_pending", "inspection_completed">>,
     <<"inspection_pending", "review_pending">>,
     <<"review_pending", "approved">>,
     <<"review_pending", "needs_completion">>,
     <<"needs_completion", "review_pending">>,
     <<"approved", "inspection_pending">>,
     <<"needs_completion", "inspection_pending">>,
     <<"inspection_completed", "payment_pending">>,
     <<"approved", "payment_pending">>,
     <<"payment_pending", "payment_completed">>,
     <<"payment_completed", "issued">>,
     <<"inspection_completed", "issued">>}

\* the capability the table asks of the user for an action
HasCapability(user, action) ==
    CASE action \in {"create", "complete_missing"} -> _can_data_entry(user)
      [] action \in {"approve", "needs_completion", "reject",
                     "receive_for_inspection", "submit_inspection_report"} ->
            _can_inspector(user)
      [] OTHER -> _can_admin(user)

\* the change-log rows of one permit
PermitLog(log, p) == SelectSeq(log, LAMBDA r : r.pirmet = p)

\* the step stores, changes or removes the row of permit p or a change-log
\* row of it
PermitTouched(p) ==
    \/ p \notin DOMAIN permits'
    \/ permits'[p] # permits[p]
    \/ PermitLog(changes', p) # PermitLog(changes, p)

\* the step is a POST of the action by the user, on the list page or on the
\* detail page of permit p, or (create) on one of the intake forms
Posted(user, action, p) ==
    \/ clearance_list_unbound(user, action)
    \/ clearance_list_other(user, action)
    \/ pirmet_detail_other(user, action, p)
    \/ /\ action = "delete"
       /\ clearance_list_delete(user, p)
    \/ /\ action = "complete_missing"
       /\ \E raw_notes \in RawText, docs \in DocPayloads :
             pirmet_detail_complete_missing(user, p, raw_notes, docs)
    \/ /\ action \in ReviewActions
       /\ \E inspector_id \in EngineerIds, raw_remarks \in RawText :
             \/ clearance_list_review(user, action, p, inspector_id, raw_remarks)
             \/ pirmet_detail_review(user, action, p, inspector_id, raw_remarks)
    \/ /\ action = "create"
       /\ \/ \E company_id \in CompanyIds, expiry_value \in DateInputs,
                docs \in DocPayloads :
                clearance_list_create(user, company_id, expiry_value, docs)
          \/ \E form \in PestForms : basetemplate(user, form)
          \/ \E form \in OtherForms :
                \/ pesticide_transport_permit(user, form)
                \/ waste_disposal_permit(user, form)

\* no action outside the given table acts on a stored permit
LegalUnder(table) ==
    \A p \in DOMAIN permits :
        PermitTouched(p) =>
            \A action \in ActionNames :
                <<permits[p].status, action>> \notin table =>
                    ~\E user \in Users : Posted(user, action, p)

C2_EdgeConformance ==
    [][\A p \in DOMAIN permits' :
          IF p \in DOMAIN permits
          THEN \/ permits'[p].status = permits[p].status
               \/ <<permits[p].status, permits'[p].status>> \in TableEdges
          ELSE permits'[p].permit_type = "pest_control"
                  => permits'[p].status = "order_received"]_vars

\* the actions the capability table of the claim names
GatedActions ==
    {"create", "complete_missing", "approve", "needs_completion", "delete"}
    \cup (UnboundActions \ {"update_request_email"})

\* the answers that tell the user of an error
ErrorAnswers ==
    {"form_errors", "list_errors", "detail_errors", "forbidden", "login",
     "not_found"}

(***************************************************************************)
(* C3  Authorization gating: a POST of a gated action by a user who does   *)
(* not hold the capability the table asks for stores, changes and removes  *)
(* no permit (nor any review, document or change-log row), and is          *)
(* answered with an error.                                                 *)
(***************************************************************************)
C3_AuthorizationGating ==
    [][\A user \in Users, action \in GatedActions, p \in PermitIds :
          (~HasCapability(user, action) /\ Posted(user, action, p))
              => /\ UNCHANGED <<permits, reviews, documents, changes>>
                 /\ response' \in ErrorAnswers]_vars

(***************************************************************************)
(* C4  All-or-nothing: a request that is refused (a role, state or payload *)
(* check of its handler failed) changes no stored row: no permit, review,  *)
(* company, engineer, document or change-log row.                          *)
(***************************************************************************)
C4_AllOrNothing == [][response' \in ErrorAnswers => UNCHANGED db]_vars

\* the rows of type 'created' the step appends for permit p
CreatedRows(p) ==
    SelectSeq(PermitLog(changes', p), LAMBDA r : r.change_type = "created")

(***************************************************************************)
(* C5  Creation: a pest-control permit stored by a data-entry or public    *)
(* intake request has status order_received when the request completes,    *)
(* and the request appends exactly one change-log row of type 'created',   *)
(* whose new_status is that status.                                        *)
(***************************************************************************)
C5_CreatedAsOrderReceived ==
    [][\A p \in DOMAIN permits' \ DOMAIN permits :
          permits'[p].permit_type = "pest_control"
              => /\ permits'[p].status = "order_received"
                 /\ Len(CreatedRows(p)) = 1
                 /\ CreatedRows(p)[1].new_status = permits'[p].status]_vars

\* the stages of the lifecycle an administrator advances: the action, the
\* status it is posted in and the status it leads to
AdminStages ==
    {<<"send_inspection_payment_link", "order_received",
       "inspection_payment_pending">>,
     <<"inspection_payment", "inspection_payment_pending", "inspection_pending">>,
     <<"send_payment_link", "inspection_completed", "payment_pending">>,
     <<"payment", "payment_pending", "payment_completed">>,
     <<"issue", "payment_completed", "issued">>}

(***************************************************************************)
(* C6  Reachability of issuance: a pest-control permit in order_received   *)
(* can be taken to issued by the handlers, one stage after the other.      *)
(* Stated stage by stage: when an administrator posts the action of a      *)
(* stage on the list page while a permit waits in the status of that       *)
(* stage, a waiting permit moves to the next status.  (The branches of     *)
(* these actions fail before they read the payload, so the step stands for *)
(* every payload, the valid ones among them.)                              *)
(***************************************************************************)
C6_StagesAdvance ==
    [][\A stage \in AdminStages :
          (/\ \E p \in DOMAIN permits : permits[p].status = stage[2]
           /\ clearance_list_unbound("adm", stage[1]))
              => \E p \in DOMAIN permits :
                    /\ permits[p].status = stage[2]
                    /\ p \in DOMAIN permits'
                    /\ permits'[p].status = stage[3]]_vars

(***************************************************************************)
(* C7  Terminal state: a permit whose status is issued keeps that status   *)
(* in every later step for as long as it is stored (only delete removes    *)
(* it).                                                                    *)
(***************************************************************************)
C7_IssuedIsTerminal ==
    [][\A p \in DOMAIN permits :
          (permits[p].status = "issued" /\ p \in DOMAIN permits')
              => permits'[p].status = "issued"]_vars

\* an issued permit, and a review or a completion posted on its detail page
\* and refused
C7_RefusedOnIssuedPermit ==
    /\ response = "detail_errors"
    /\ \E p \in DOMAIN permits : permits[p].status = "issued"

(***************************************************************************)
(* C8  Append-only audit log: every step keeps the change-log rows written *)
(* so far, unmodified and in place; rows are only added.                   *)
(***************************************************************************)
C8_LogAppendOnly ==
    [][/\ Len(changes') >= Len(changes)
       /\ SubSeq(changes', 1, Len(changes)) = changes]_vars

(***************************************************************************)
(* C9  No uncaught faults: no POST to the list page or to a detail page    *)
(* ends with an exception leaving the view.                                *)
(***************************************************************************)
C9_NoUncaughtFault == response # "exception"

\* the number a sequence of decimal digits denotes, -1 when one is no digit
DigitValue(c) ==
    CASE c = "0" -> 0 [] c = "1" -> 1 [] c = "2" -> 2 [] c = "3" -> 3
      [] c = "4" -> 4 [] c = "5" -> 5 [] c = "6" -> 6 [] c = "7" -> 7
      [] c = "8" -> 8 [] c = "9" -> 9 [] OTHER -> -1

RECURSIVE NumberOf(_)
NumberOf(digits) ==
    IF digits = <<>> THEN 0
    ELSE IF DigitValue(digits[Len(digits)]) < 0
            \/ NumberOf(SubSeq(digits, 1, Len(digits) - 1)) < 0
    THEN -1
    ELSE 10 * NumberOf(SubSeq(digits, 1, Len(digits) - 1))
         + DigitValue(digits[Len(digits)])

\* PRM-<four digits of the year>-<six digits of the key>
WellFormedPermitNo(no, year, pk) ==
    /\ Len(no) = 15
    /\ SubSeq(no, 1, 4) = <<"P", "R", "M", "-">>
    /\ NumberOf(SubSeq(no, 5, 8)) = year
    /\ no[9] = "-"
    /\ NumberOf(SubSeq(no, 10, 15)) = pk

(***************************************************************************)
(* C10  Permit number: the number of every stored permit is PRM-, the year *)
(* of its creation, a dash, and its key padded with zeros to six digits;   *)
(* and no step changes the number of a permit that stays stored.           *)
(***************************************************************************)
C10_PermitNumber ==
    /\ [](\A p \in DOMAIN permits :
            WellFormedPermitNo(permits[p].permit_no,
                               Year(permits[p].dateOfCreation), p))
    /\ [][\A p \in DOMAIN permits \cap DOMAIN permits' :
             permits'[p].permit_no = permits[p].permit_no]_vars

\* a permit saved again, by a review, in a later year than that of its creation
C10_SavedAgainInLaterYear ==
    \E p \in DOMAIN permits :
        /\ permits[p].status \in {"approved", "needs_completion"}
        /\ Year(today) # Year(permits[p].dateOfCreation)
        /\ \E i \in DOMAIN changes :
              /\ changes[i].pirmet = p
              /\ changes[i].change_type = "status_change"

\* the InspectorReview rows of one permit
ReviewsOf(rows, p) == {r \in rows : r.pirmet = p}

\* the step is a review of permit p that went through
Reviewed(p) ==
    /\ p \in DOMAIN permits'
    /\ permits[p].status = "review_pending"
    /\ permits'[p].status \in {"approved", "needs_completion"}

(***************************************************************************)
(* C11  Single review per permit: no permit ever has two InspectorReview   *)
(* rows, and after every review that goes through (a second one after a   *)
(* completion included) the permit has exactly one row, which holds the    *)
(* inspector, the approval flag and the comments of that review.           *)
(***************************************************************************)
C11_SingleReview ==
    /\ [](\A p \in PermitIds : Cardinality(ReviewsOf(reviews, p)) <= 1)
    /\ [][\A p \in DOMAIN permits :
             Reviewed(p) =>
                \E r \in reviews' :
                    /\ ReviewsOf(reviews', p) = {r}
                    /\ r.inspector \in DOMAIN engineers
                    /\ r.isApproved = (permits'[p].status = "approved")
                    /\ r.comments = IF r.isApproved
                                    THEN permits'[p].approvedRemarks
                                    ELSE permits'[p].unapprovedReason]_vars

\* a permit returned for completion, completed, and then approved: its one
\* review row is that of the approval
C11_ReviewedTwice ==
    \E p \in DOMAIN permits :
        /\ permits[p].status = "approved"
        /\ permits[p].unapprovedBy # NoUser
        /\ \E r \in reviews : r.pirmet = p /\ r.isApproved

(***************************************************************************)
(* C12.  Certification gating: a company whose pest_control_type is        *)
(* termite_control is never assigned an engineer without a termite         *)
(* certificate, whichever operation assigns the engineer (add_company, the *)
(* company edit, or the upsert of a permit intake).                        *)
(***************************************************************************)
C12_TermiteCertified ==
    \A c \in DOMAIN companies :
        /\ companies[c].pest_control_type = "termite_control"
        /\ companies[c].enginer # NoId
        => engineers[companies[c].enginer].termite_cert # ""

(***************************************************************************)
(* C13.  Payment: when an admin posts payment for a permit whose status is *)
(* payment_pending, the permit becomes payment_completed, a receipt is     *)
(* stored on it, and payment_date becomes today when it was unset and is   *)
(* kept when it was set.  (A post of payment carries the receipt; the      *)
(* branches that answer it read neither the permit nor the receipt.)       *)
(***************************************************************************)
C13_PaymentCompletes ==
    [][\A p \in DOMAIN permits :
          /\ permits[p].status = "payment_pending"
          /\ \/ clearance_list_unbound("adm", "payment")
             \/ pirmet_detail_other("adm", "payment", p)
          => /\ p \in DOMAIN permits'
             /\ permits'[p].status = "payment_completed"
             /\ permits'[p].payment_receipt # ""
             /\ permits'[p].payment_date =
                    IF permits[p].payment_date = NoDate THEN today
                    ELSE permits[p].payment_date]_vars

(***************************************************************************)
(* C14.  Issue precondition: when an admin posts issue for a permit whose  *)
(* status is payment_pending, nothing is changed and the page is rendered  *)
(* with an error; when the status is payment_completed, the permit becomes *)
(* issued.                                                                 *)
(***************************************************************************)
C14_IssuePrecondition ==
    [][\A p \in DOMAIN permits :
          \/ clearance_list_unbound("adm", "issue")
          \/ pirmet_detail_other("adm", "issue", p)
          => /\ permits[p].status = "payment_pending"
                => UNCHANGED db /\ response' \in {"list_errors", "detail_errors"}
             /\ permits[p].status = "payment_completed"
                => p \in DOMAIN permits' /\ permits'[p].status = "issued"]_vars

(***************************************************************************)
(* C15.  Capability sets: an account without the superuser flag holds      *)
(* _can_data_entry iff it is in the data-entry or the admin group,         *)
(* _can_inspector iff it is in the inspector or the admin group, and       *)
(* _can_admin iff it is in the admin group; a superuser holds all three;   *)
(* an unauthenticated user holds none.                                     *)
(***************************************************************************)
InRole(u, roles) == groups(u) \cap roles # {}

RolesOf(capability) ==
    CASE capability = "_can_data_entry" -> {ROLE_DATA_ENTRY, ROLE_ADMIN}
      [] capability = "_can_inspector" -> {ROLE_INSPECTOR, ROLE_ADMIN}
      [] capability = "_can_admin" -> {ROLE_ADMIN}

C15_CapabilitySets ==
    \A capability \in DOMAIN granted :
        granted[capability] =
            IF ~is_authenticated(account) THEN FALSE
            ELSE IF is_superuser(account) THEN TRUE
            ELSE InRole(account, RolesOf(capability))

\* a superuser who is in the data-entry group only has been asked for, and
\* granted, each of the three capabilities
C15_SuperuserHoldsAll ==
    /\ account = "root_clerk"
    /\ DOMAIN granted = Capabilities
    /\ \A capability \in Capabilities : granted[capability]

(***************************************************************************)
(* C16.  No duplicate company: whatever operations have stored Company     *)
(* rows, at most one row exists for each pair of name and licence number.  *)
(***************************************************************************)
C16_OneRowPerPair ==
    \A c1, c2 \in DOMAIN companies :
        /\ companies[c1].name = companies[c2].name
        /\ companies[c1].number = companies[c2].number
        => c1 = c2

(***************************************************************************)
(* C17.  Unknown actions are no-ops: when a signed-in user posts an action *)
(* name that the transition table does not define, no permit, review,      *)
(* document or change-log row is changed and the caller is returned to the *)
(* same view (the list page redirects to itself, the detail page of a      *)
(* stored permit is rendered again).                                       *)
(***************************************************************************)
\* the action names the table defines, and the intake action
DefinedActions == {edge[2] : edge \in TransitionTable} \cup {"create"}

UndefinedActions == UnknownActions \ DefinedActions

ActivityUniverse == <<"public_health_pest_control", "termite_control", "grain_pests">>

GrantedActivities(enginer) ==
    (IF enginer.public_health_cert # ""
     THEN {"public_health_pest_control", "grain_pests"} ELSE {})
    \cup (IF enginer.termite_cert # "" THEN {"termite_control"} ELSE {})

\* the texts that list each activity of a set once, in any order
ListingsOf(activities) ==
    {joined_or_none(items) :
        items \in {l \in [1..Cardinality(activities) -> activities] :
                      \A i, j \in DOMAIN l : l[i] = l[j] => i = j}}

C18_ActivityStamping ==
    [][\A p \in DOMAIN permits' \ DOMAIN permits :
          (\E user \in Users, form \in PestForms : basetemplate(user, form))
          => LET enginer == engineers'[companies'[permits'[p].company].enginer]
                 allowed == GrantedActivities(enginer)
             IN /\ permits'[p].allowed_activities \in ListingsOf(allowed)
                /\ permits'[p].restricted_activities =
                      joined_or_none(SelectSeq(ActivityUniverse,
                                               LAMBDA a : a \notin allowed))]_vars

(***************************************************************************)
(* C19.  Activity normalization: a list that holds termite_control and not *)
(* public_health_pest_control comes out with public_health_pest_control    *)
(* put in front of it; any other list comes out as it is; and a list that  *)
(* has been normalized comes out of a second normalization unchanged.      *)
(***************************************************************************)
IndexOf(items, key) == CHOOSE i \in DOMAIN items : items[i] = key

C19_Normalization ==
    [][/\ IF /\ "termite_control" \in Range(activity_keys)
              /\ "public_health_pest_control" \notin Range(activity_keys)
           THEN /\ Len(activity_keys') = Len(activity_keys) + 1
                /\ activity_keys'[1] = "public_health_pest_control"
                /\ Tail(activity_keys') = activity_keys
                /\ IndexOf(activity_keys', "public_health_pest_control")
                      < IndexOf(activity_keys', "termite_control")
           ELSE activity_keys' = activity_keys
        /\ normalize(activity_keys') = activity_keys']_vars

\* a list of MaxKeys keys with termite_control last has been normalized
C19_Prepended ==
    /\ Len(activity_keys) = MaxKeys + 1
    /\ activity_keys[1] = "public_health_pest_control"
    /\ activity_keys[MaxKeys + 1] = "termite_control"

(***************************************************************************)
(* C20.  File-extension validation: when a request of a user who holds the *)
(* capability carries a file whose extension, in lower case, is not one of *)
(* .pdf, .png, .jpg, .jpeg, the page is rendered again with a validation   *)
(* error and no permit, document or change-log row is stored or changed.   *)
(* The requests are those that carry documents (the intake form, create    *)
(* and complete_missing) and the payment of a permit in payment_pending,   *)
(* which carries the receipt (the branch that answers it does not come as  *)
(* far as reading the receipt).                                            *)
(***************************************************************************)
ValidationErrors == {"form_errors", "list_errors", "detail_errors"}

RefusedPayloads == {docs \in DocPayloads : invalid_docs(docs) # {}}

C20_ExtensionValidation ==
    [][(\/ \E form \in PestForms :
             form.documents \in RefusedPayloads /\ basetemplate("clerk", form)
        \/ \E company_id \in CompanyIds, expiry_value \in DateInputs,
              docs \in RefusedPayloads :
             clearance_list_create("clerk", company_id, expiry_value, docs)
        \/ \E p \in DOMAIN permits, raw_notes \in RawText,
              docs \in RefusedPayloads :
             pirmet_detail_complete_missing("clerk", p, raw_notes, docs)
        \/ /\ \E p \in DOMAIN permits : permits[p].status = "payment_pending"
           /\ clearance_list_unbound("adm", "payment"))
       => /\ response' \in ValidationErrors
          /\ UNCHANGED <<permits, documents, changes>>]_vars

(***************************************************************************)
(* C21.  Delete: posted by an admin for a stored permit, whatever its      *)
(* status, delete removes the permit with its review and document rows and *)
(* leaves the other permits alone; posted by a user who is not an admin,   *)
(* or for a key of no permit, it removes nothing; and a key that has been  *)
(* given out and names no permit never names one again.                    *)
(***************************************************************************)
DocumentsOf(rows, p) == SelectSeq(rows, LAMBDA r : r.pirmet = p)

C21_Delete ==
    [][/\ \A user \in Users, p \in PermitIds :
             clearance_list_delete(user, p)
             => IF _can_admin(user) /\ p \in DOMAIN permits
                THEN /\ p \notin DOMAIN permits'
                     /\ ReviewsOf(reviews', p) = {}
                     /\ DocumentsOf(documents', p) = <<>>
                     /\ \A q \in DOMAIN permits \ {p} :
                           /\ q \in DOMAIN permits'
                           /\ permits'[q] = permits[q]
                           /\ ReviewsOf(reviews', q) = ReviewsOf(reviews, q)
                           /\ DocumentsOf(documents', q) = DocumentsOf(documents, q)
                ELSE UNCHANGED <<permits, reviews, documents>>
       /\ \A p \in 1..(nextPk - 1) :
             p \notin DOMAIN permits => p \notin DOMAIN permits']_vars

\* the stored permit has been deleted and the list page asked for again
C21_PermitDeleted ==
    /\ nextPk > 1
    /\ permits = <<>>
    /\ response = "redirect"

\* the step is a POST of the action by an admin, on the list page or on the
\* detail page of permit p (the branches that answer these actions read
\* nothing of the payload)
AdminPosted(action, p) ==
    \/ clearance_list_unbound("adm", action)
    \/ pirmet_detail_other("adm", action, p)

\* the step appends to the log of permit p one row, of the type and statuses
LogsOne(p, change_type, old_status, new_status) ==
    /\ Len(PermitLog(changes', p)) = Len(PermitLog(changes, p)) + 1
    /\ SubSeq(PermitLog(changes', p), 1, Len(PermitLog(changes, p)))
          = PermitLog(changes, p)
    /\ LET row == PermitLog(changes', p)[Len(PermitLog(changes', p))]
       IN /\ row.change_type = change_type
          /\ row.old_status = old_status
          /\ row.new_status = new_status

(***************************************************************************)
(* C22.  inspection_payment: when an admin posts inspection_payment, with  *)
(* a receipt of an allowed extension and a reference, for a permit in      *)
(* inspection_payment_pending, the permit becomes inspection_pending and a *)
(* status_change row is written; for a permit in another status nothing is *)
(* changed.                                                                *)
(***************************************************************************)
C22_InspectionPayment ==
    [][\A p \in DOMAIN permits :
          AdminPosted("inspection_payment", p)
          => IF permits[p].status = "inspection_payment_pending"
             THEN /\ p \in DOMAIN permits'
                  /\ permits'[p].status = "inspection_pending"
                  /\ LogsOne(p, "status_change", "inspection_payment_pending",
                             "inspection_pending")
             ELSE UNCHANGED db]_vars

(***************************************************************************)
(* C23.  send_inspection_payment_link: when an admin posts it, with a link *)
(* and a reference, for a permit in order_received, the permit becomes     *)
(* inspection_payment_pending; for a permit already in                     *)
(* inspection_payment_pending the request is accepted and the status       *)
(* stays; for a permit in another status nothing is changed.               *)
(***************************************************************************)
C23_SendInspectionPaymentLink ==
    [][\A p \in DOMAIN permits :
          AdminPosted("send_inspection_payment_link", p)
          => IF permits[p].status \in {"order_received",
                                       "inspection_payment_pending"}
             THEN /\ p \in DOMAIN permits'
                  /\ permits'[p].status = "inspection_payment_pending"
                  /\ response' = "redirect"
             ELSE UNCHANGED db]_vars

(***************************************************************************)
(* C24.  Inspector review effects: when a user who holds the inspector     *)
(* capability posts approve or needs_completion, on either page, with a    *)
(* registered inspector selected, for a permit in review_pending, approve  *)
(* makes the permit approved with the user as approver, and                *)
(* needs_completion makes it needs_completion with the user as rejecter    *)
(* and the remarks, stripped, as reason; needs_completion with empty or    *)
(* blank remarks changes nothing, and so does either action for a permit   *)
(* in another status.  (Each step either has these effects or is not such  *)
(* a request.)                                                             *)
(***************************************************************************)
Reviewers == {user \in Users : _can_inspector(user)}

C24_ReviewEffects ==
    [][\A p \in DOMAIN permits :
          \/ 1 \notin DOMAIN engineers
          \/ IF permits[p].status # "review_pending"
             THEN \/ UNCHANGED db
                  \/ \A user \in Reviewers, action \in {"approve", "needs_completion"},
                        raw_remarks \in RawText :
                        /\ ~clearance_list_review(user, action, p, 1, raw_remarks)
                        /\ ~pirmet_detail_review(user, action, p, 1, raw_remarks)
             ELSE \A user \in Reviewers, action \in {"approve", "needs_completion"},
                    raw_remarks \in RawText :
                     \/ IF action = "approve"
                        THEN /\ p \in DOMAIN permits'
                             /\ permits'[p].status = "approved"
                             /\ permits'[p].approvedBy = user
                        ELSE IF strip(raw_remarks) = "" THEN UNCHANGED db
                        ELSE /\ p \in DOMAIN permits'
                             /\ permits'[p].status = "needs_completion"
                             /\ permits'[p].unapprovedBy = user
                             /\ permits'[p].unapprovedReason = strip(raw_remarks)
                     \/ /\ ~clearance_list_review(user, action, p, 1, raw_remarks)
                        /\ ~pirmet_detail_review(user, action, p, 1, raw_remarks)]_vars

\* a permit has just been approved by the inspector
C24_Reviewed ==
    \E p \in DOMAIN permits :
        /\ permits[p].status = "approved"
        /\ permits[p].approvedBy = "insp"
        /\ response = "redirect"

(***************************************************************************)
(* C25.  complete_missing: posted by a user who holds the data-entry       *)
(* capability, for a permit in needs_completion, with documents that are   *)
(* all of an allowed extension or with notes (at least one of the two), it *)
(* makes the permit review_pending and writes, in this order, a            *)
(* document_upload row when documents were given, a details_update row     *)
(* when notes were given, and one status_change row from needs_completion  *)
(* to review_pending; with neither documents nor notes, or for a permit in *)
(* another status, it changes nothing.  (Each step either has these        *)
(* effects or is not such a request.)                                      *)
(***************************************************************************)
Clerks == {user \in Users : _can_data_entry(user)}

\* the types of the rows the step appends to the log of permit p
AppendedTypes(p) ==
    LET old == PermitLog(changes, p)
        new == PermitLog(changes', p)
    IN [i \in 1..(Len(new) - Len(old)) |-> new[Len(old) + i].change_type]

C25_CompleteMissing ==
    [][\A p \in DOMAIN permits :
          IF permits[p].status # "needs_completion"
          THEN \/ UNCHANGED db
               \/ \A user \in Clerks, raw_notes \in RawText, docs \in DocPayloads :
                     ~pirmet_detail_complete_missing(user, p, raw_notes, docs)
          ELSE \A user \in Clerks, raw_notes \in RawText, docs \in DocPayloads :
                  \/ IF /\ invalid_docs(docs) = {}
                        /\ docs # <<>> \/ strip(raw_notes) # ""
                     THEN /\ p \in DOMAIN permits'
                          /\ permits'[p].status = "review_pending"
                          /\ Len(PermitLog(changes', p)) > Len(PermitLog(changes, p))
                          /\ AppendedTypes(p) =
                                (IF docs # <<>> THEN <<"document_upload">>
                                 ELSE <<>>)
                                \o (IF strip(raw_notes) # ""
                                    THEN <<"details_update">> ELSE <<>>)
                                \o <<"status_change">>
                          /\ LET log == PermitLog(changes', p)
                             IN /\ log[Len(log)].old_status = "needs_completion"
                                /\ log[Len(log)].new_status = "review_pending"
                     ELSE UNCHANGED db
                  \/ ~pirmet_detail_complete_missing(user, p, raw_notes, docs)]_vars

\* a permit has been completed with documents and with notes
C25_CompletedWithBoth ==
    \E p \in DOMAIN permits :
        LET log == PermitLog(changes, p)
        IN /\ permits[p].status = "review_pending"
           /\ Len(log) >= 3
           /\ log[Len(log) - 2].change_type = "document_upload"
           /\ log[Len(log) - 1].change_type = "details_update"
           /\ log[Len(log)].change_type = "status_change"
           /\ log[Len(log)].old_status = "needs_completion"

(***************************************************************************)
(* C26.  send_payment_link: when an admin posts it, with a link, an email  *)
(* and a payment reference, for a pest-control permit in approved (the     *)
(* legacy flow), the reference is stored and the permit becomes            *)
(* payment_pending; for a permit that is neither in approved nor in        *)
(* inspection_completed nothing is changed.                                *)
(***************************************************************************)
C26_SendPaymentLink ==
    [][\A p \in DOMAIN permits :
          AdminPosted("send_payment_link", p)
          => IF /\ permits[p].permit_type = "pest_control"
                /\ permits[p].status = "approved"
             THEN /\ p \in DOMAIN permits'
                  /\ permits'[p].status = "payment_pending"
                  /\ permits'[p].PaymentNumber # ""
             ELSE permits[p].status \notin {"approved", "inspection_completed"}
                  => UNCHANGED db]_vars

(***************************************************************************)
(* C27.  submit_inspection_report: when a user who holds the inspector     *)
(* capability posts it, with decision approved, for a permit in            *)
(* inspection_pending, the permit becomes inspection_completed; for a      *)
(* permit in another status nothing is changed.                            *)
(***************************************************************************)
C27_SubmitInspectionReport ==
    [][\A p \in DOMAIN permits :
          \/ clearance_list_other("insp", "submit_inspection_report")
          \/ pirmet_detail_other("insp", "submit_inspection_report", p)
          => IF permits[p].status = "inspection_pending"
             THEN /\ p \in DOMAIN permits'
                  /\ permits'[p].status = "inspection_completed"
             ELSE UNCHANGED db]_vars

(***************************************************************************)
(* C28.  update_permit_details: when an admin posts it, with the issue     *)
(* date day0 and no expiry date, for a permit in payment_completed or      *)
(* issued, the issue date becomes that date, the status and every other    *)
(* column stay, and one details_update row is written; for a permit in     *)
(* another status nothing is changed.                                      *)
(***************************************************************************)
C28_UpdatePermitDetails ==
    [][\A p \in DOMAIN permits :
          AdminPosted("update_permit_details", p)
          => IF permits[p].status \in {"payment_completed", "issued"}
             THEN /\ p \in DOMAIN permits'
                  /\ permits'[p] =
                        [permits[p] EXCEPT !.issue_date = _parse_date("day0")]
                  /\ LogsOne(p, "details_update", NoStatus, NoStatus)
             ELSE UNCHANGED db]_vars

StatusEntries(p) ==
    SelectSeq(PermitLog(changes, p), LAMBDA r : r.new_status # NoStatus)

(***************************************************************************)
(* C30.  The status history is reconstructible from the change log: for    *)
(* every stored permit the rows that carry a new_status, oldest first,     *)
(* begin with the 'created' row, each later row's old_status is the        *)
(* new_status of the row before it, and the last row's new_status is the   *)
(* permit's current status.                                                *)
(***************************************************************************)
C30_StatusHistory ==
    \A p \in DOMAIN permits :
        LET entries == StatusEntries(p)
        IN /\ Len(entries) >= 1
           /\ entries[1].change_type = "created"
           /\ \A i \in 2..Len(entries) :
                 entries[i].old_status = entries[i - 1].new_status
           /\ entries[Len(entries)].new_status = permits[p].status

\* a permit whose log carries three statuses: it was stored, returned for
\* completion and completed
C30_ThreeStatuses ==
    \E p \in DOMAIN permits :
        /\ Len(StatusEntries(p)) >= 3
        /\ permits[p].status = "review_pending"

\* the rows of type 'status_change' the step appends for permit p
AppendedStatusChanges(p) ==
    SelectSeq(SubSeq(PermitLog(changes', p), Len(PermitLog(changes, p)) + 1,
                     Len(PermitLog(changes', p))),
              LAMBDA r : r.change_type = "status_change")

\* the status an action named by the claim asks of the permit
AuditedSource(action) ==
    IF action = "payment" THEN "payment_pending" ELSE "inspection_payment_pending"

LeavingRows(p, status) ==
    SelectSeq(PermitLog(changes, p),
              LAMBDA r : r.change_type = "status_change" /\ r.old_status = status)

(***************************************************************************)
(* C32.  Atomic review under concurrency: when an approve request and a    *)
(* needs_completion request for one permit have both loaded it in          *)
(* review_pending and both have been answered, exactly one status_change   *)
(* row leaves review_pending, and the permit is approved if and only if    *)
(* its InspectorReview has isApproved = true.                              *)
(***************************************************************************)
C32_AtomicReview ==
    (\A action \in DOMAIN inflight :
        /\ inflight[action].at = "answered"
        /\ inflight[action].pirmet # <<>>
        /\ inflight[action].pirmet.status = "review_pending")
    => /\ Len(LeavingRows(RacedPermit, "review_pending")) = 1
       /\ permits[RacedPermit].status = "approved"
          <=> \E r \in reviews : r.pirmet = RacedPermit /\ r.isApproved

RowsOfPair(name, number) ==
    {c \in DOMAIN companies :
        companies[c].name = name /\ companies[c].number = number}

(***************************************************************************)
(* C34.  Upsert under concurrency: when two intake forms that name the     *)
(* same new pair (name, number) have been handled side by side and each    *)
(* has stored its permit, exactly one Company row exists for the pair and  *)
(* both permits belong to it.                                              *)
(***************************************************************************)
C34_ConcurrentUpsert ==
    (/\ DOMAIN inflight = IntakeRequests
     /\ \A request \in IntakeRequests : inflight[request].at = "answered"
     /\ DOMAIN permits = {1, 2})
    => /\ Cardinality(RowsOfPair("Acme", "TL-1")) = 1
       /\ permits[1].company = permits[2].company

\* a POST to clearance_list by a user who has not logged in
AnonymousListPost ==
    \/ \E action \in UnboundActions : clearance_list_unbound("anon", action)
    \/ \E company_id \in CompanyIds, expiry_value \in DateInputs, docs \in DocPayloads :
          clearance_list_create("anon", company_id, expiry_value, docs)
    \/ \E action \in ReviewActions, pirmet_id \in PermitIds,
          inspector_id \in EngineerIds, raw_remarks \in RawText :
          clearance_list_review("anon", action, pirmet_id, inspector_id, raw_remarks)
    \/ \E pirmet_id \in PermitIds : clearance_list_delete("anon", pirmet_id)
    \/ \E action \in UnknownActions \cup {"complete_missing"} :
          clearance_list_other("anon", action)

\* a POST to pirmet_detail of key id by a user who has not logged in
AnonymousDetailPost(id) ==
    \/ \E raw_notes \in RawText, docs \in DocPayloads :
          pirmet_detail_complete_missing("anon", id, raw_notes, docs)
    \/ \E action \in ReviewActions, inspector_id \in EngineerIds,
          raw_remarks \in RawText :
          pirmet_detail_review("anon", action, id, inspector_id, raw_remarks)
    \/ \E action \in UnknownActions \cup UnboundActions \cup {"create", "delete"} :
          pirmet_detail_other("anon", action, id)

(***************************************************************************)
(* C35.  A POST to clearance_list or to pirmet_detail by a user who has    *)
(* not logged in changes no row, whatever the action and the payload, and  *)
(* is redirected to login (pirmet_detail of a key of no permit answers     *)
(* 404 before it looks at the user).                                       *)
(***************************************************************************)
C35_AnonymousPostsChangeNothing ==
    [][/\ (UNCHANGED db /\ response' = "login") \/ ~AnonymousListPost
       /\ \A id \in PermitIds :
             \/ /\ UNCHANGED db
                /\ response' = IF id \in DOMAIN permits THEN "login" ELSE "not_found"
             \/ ~AnonymousDetailPost(id)]_vars

\* a permit is stored and the last request was sent to login
C35_SentToLogin == permits # <<>> /\ response = "login"

C37_CertificateOrder ==
    [][\A e \in DOMAIN engineers' :
          /\ engineers'[e].termite_cert # "" => engineers'[e].public_health_cert # ""
          /\ e \in DOMAIN engineers
             => /\ engineers[e].public_health_cert # ""
                   => engineers'[e].public_health_cert # ""
                /\ engineers[e].termite_cert # ""
                   => engineers'[e].termite_cert # ""]_vars

\* the engineer stored without certificates has been given both
C37_BothUploaded ==
    /\ engineers[1].public_health_cert # ""
    /\ engineers[1].termite_cert # ""
    /\ response = "redirect"

(***************************************************************************)
(* C38.  Review and status agree: in every state reached by requests       *)
(* handled one after the other, a permit in approved has an                *)
(* InspectorReview with isApproved = true and a recorded approver, and a   *)
(* permit in needs_completion has an InspectorReview with isApproved =     *)
(* false, a recorded rejecter and a non-empty unapprovedReason.            *)
(***************************************************************************)
C38_ReviewMatchesStatus ==
    \A p \in DOMAIN permits :
        /\ permits[p].status = "approved"
           => /\ ReviewsOf(reviews, p) # {}
              /\ \A r \in ReviewsOf(reviews, p) : r.isApproved
              /\ permits[p].approvedBy # NoUser
        /\ permits[p].status = "needs_completion"
           => /\ ReviewsOf(reviews, p) # {}
              /\ \A r \in ReviewsOf(reviews, p) : ~r.isApproved
              /\ permits[p].unapprovedBy # NoUser
              /\ permits[p].unapprovedReason # ""

\* a permit that was returned for completion, completed and then approved
C38_ApprovedAfterReturn ==
    \E p \in DOMAIN permits :
        /\ permits[p].status = "approved"
        /\ permits[p].unapprovedBy # NoUser
        /\ \E r \in ReviewsOf(reviews, p) : r.isApproved

====
